---- MODULE Spec2Model ----
(***************************************************************************)
(* Collaborative session hub of backend/main.py: the ConnectionManager     *)
(* registries, the per-connection WebSocket handler (an asyncio coroutine, *)
(* which other coroutines interleave with at every await), the in-memory   *)
(* project snapshots, the Firestore record of each project and the         *)
(* last-saved-hash cache.                                                  *)
(***************************************************************************)
EXTENDS Integers, Sequences, FiniteSets, TLC

\* ------------------------------------------------------------------ bounds
\* WebSocket objects; each one is connected once.
MaxConns == 3
\* The wall clock (time.time() in ms) runs from 1 to MaxClock.
MaxClock == 2
\* An updated_at a client supplies from a clock that runs ahead.
FutureTs == 2
\* No write is modelled that would stamp an updated_at above MaxStamp.
MaxStamp == 5
\* yjs:update appends per room in the specifications that bound them.
MaxYjs == 202
\* yjs:update appends per room where every relayed message type is sent.
MaxEcho == 1
MaxPart == 2

\* ------------------------------------------------------- values of the code
\* Python None where a WebSocket, a user id, a client id or a room is expected.
NoConn == 0
NoUser == 0
NoClient == ""
NoRoom == ""

DEFAULT_PROJECT_ID == "default"
MAX_PROJECT_BYTES == 900000
MAX_PROJECT_TOTAL_BYTES == 900000000
EMPTY_OVERWRITE_MAX_BYTES == 800
NONEMPTY_PROJECT_MIN_BYTES == 1600
yjs_update_limit == 200
Rooms == {DEFAULT_PROJECT_ID, "p1"}
ClientIds == {"k1"}
Conns == 1..MaxConns
\* uuid4 values: the n-th minted identity is n; a connection mints at most one.
Uids == 1..MaxConns
\* Task 0 is the coroutine of a REST request; task c > 0 is the handler of
\* WebSocket c.
RestTask == 0
Tasks == 0..MaxConns

VARIABLES
    mgr,        \* the ConnectionManager instance `manager`
    user_objs,  \* the user dicts, by id: their "client_id" entry
    next_uid,   \* how many identities uuid4 has minted
    sock,       \* state of each WebSocket: "new", "open", "closed"
    h,          \* each task's position and locals
    now,        \* int(time.time() * 1000)
    in_memory_project_raws,   \* project id -> raw dict
    firestore,                \* project id -> the "project" field of its document
    fs_ready,                 \* firestore_client is not None
    last_saved_project_hash,  \* project id -> hash
    yjs_update_logs,          \* project id -> list of blobs
    yjs_n,      \* history: accepted yjs:update appends per room (the n-th blob is n)
    ws_last,    \* history: updated_at stamped by the last accepted WebSocket project:update
    write_last, \* history: updated_at in memory after the last accepted write
    last_save,  \* history: the last save_project_to_firestore call per room
    missed,     \* history: connections a broadcast loop ended without attempting
    response    \* history: the last response of a REST write endpoint

mvars == <<mgr, user_objs, next_uid>>
svars == <<in_memory_project_raws, firestore, fs_ready, last_saved_project_hash>>
gvars == <<ws_last, write_last, last_save>>
yvars == <<yjs_update_logs, yjs_n>>
vars == <<mgr, user_objs, next_uid, sock, h, now, in_memory_project_raws,
          firestore, fs_ready, last_saved_project_hash, yjs_update_logs,
          yjs_n, ws_last, write_last, last_save, missed, response>>

\* --------------------------------------------------------- list helpers
Range(s) == {s[i] : i \in 1..Len(s)}

\* list.remove(x): drops the first occurrence.
RECURSIVE ListRemove(_, _)
ListRemove(s, x) ==
    IF s = <<>> THEN <<>>
    ELSE IF Head(s) = x THEN Tail(s)
    ELSE <<Head(s)>> \o ListRemove(Tail(s), x)

\* ------------------------------------------------- ConnectionManager
ManagerInit ==
    [active_connections  |-> [r \in Rooms |-> <<>>],
     connection_users    |-> [c \in Conns |-> NoUser],
     users               |-> [r \in Rooms |-> {}],
     client_users        |-> [r \in Rooms |-> [k \in ClientIds |-> NoUser]],
     user_connections    |-> [r \in Rooms |-> [u \in Uids |-> NoConn]],
     connection_projects |-> [c \in Conns |-> NoRoom]]

\* A disconnect that leaves the client_id of the identity mapped to it.
disconnect_keeping_client_id(m, uo, ws) ==
    LET project_id == IF m.connection_projects[ws] # NoRoom
                      THEN m.connection_projects[ws] ELSE DEFAULT_PROJECT_ID
        user_id == m.connection_users[ws]
        known == user_id # NoUser /\ user_id \in m.users[project_id]
    IN  [active_connections |->
             [m.active_connections EXCEPT
                 ![project_id] = ListRemove(@, ws)],
         connection_users |-> [m.connection_users EXCEPT ![ws] = NoUser],
         users |->
             IF known THEN [m.users EXCEPT ![project_id] = @ \ {user_id}]
             ELSE m.users,
         client_users |-> m.client_users,
         user_connections |->
             IF known
             THEN [m.user_connections EXCEPT ![project_id][user_id] = NoConn]
             ELSE m.user_connections,
         connection_projects |->
             [m.connection_projects EXCEPT ![ws] = NoRoom]]

\* ConnectionManager.disconnect(websocket); uo is the user dicts.
disconnect(m, uo, ws) ==
    LET project_id == IF m.connection_projects[ws] # NoRoom
                      THEN m.connection_projects[ws] ELSE DEFAULT_PROJECT_ID
        user_id == m.connection_users[ws]
        known == user_id # NoUser /\ user_id \in m.users[project_id]
        client_id == IF known THEN uo[user_id].client_id ELSE NoClient
        unmap == known /\ client_id # NoClient
                 /\ m.client_users[project_id][client_id] = user_id
    IN  [active_connections |->
             [m.active_connections EXCEPT
                 ![project_id] = ListRemove(@, ws)],
         connection_users |-> [m.connection_users EXCEPT ![ws] = NoUser],
         users |->
             IF known THEN [m.users EXCEPT ![project_id] = @ \ {user_id}]
             ELSE m.users,
         client_users |->
             IF unmap
             THEN [m.client_users EXCEPT ![project_id][client_id] = NoUser]
             ELSE m.client_users,
         user_connections |->
             IF known
             THEN [m.user_connections EXCEPT ![project_id][user_id] = NoConn]
             ELSE m.user_connections,
         connection_projects |->
             [m.connection_projects EXCEPT ![ws] = NoRoom]]

\* ConnectionManager.get_users(project_id): the values of the users dict.
get_users(m, project_id) == m.users[project_id]

\* connect(), lines 276-280: the identity the client_id is mapped to, the
\* socket bound to it, and the user dict if it is still in the room.
existing_user_id(m, project_id, client_id) ==
    IF client_id # NoClient THEN m.client_users[project_id][client_id]
    ELSE NoUser

old_socket(m, project_id, client_id) ==
    LET eu == existing_user_id(m, project_id, client_id)
    IN  IF eu # NoUser THEN m.user_connections[project_id][eu] ELSE NoConn

existing_user(m, project_id, client_id) ==
    LET eu == existing_user_id(m, project_id, client_id)
    IN  IF eu # NoUser /\ eu \in m.users[project_id] THEN eu ELSE NoUser

\* connect(), lines 282-285: the old socket leaves the registries.
\* A replacement that leaves the old socket bound to the user.
drop_old_socket_keeping_user(m, project_id, old) ==
    [m EXCEPT
        !.active_connections[project_id] = ListRemove(@, old),
        !.connection_projects[old] = NoRoom]

\* A replacement that only takes the old socket off the connection list.
unlist_old_socket(m, project_id, old) ==
    [m EXCEPT !.active_connections[project_id] = ListRemove(@, old)]

drop_old_socket(m, project_id, old) ==
    [m EXCEPT
        !.active_connections[project_id] = ListRemove(@, old),
        !.connection_users[old] = NoUser,
        !.connection_projects[old] = NoRoom]

\* A registration that leaves the identity out of the member list.
register_unlisted(m, project_id, ws, client_id, user_id) ==
    [m EXCEPT
        !.active_connections[project_id] = Append(@, ws),
        !.connection_users[ws] = user_id,
        !.user_connections[project_id][user_id] = ws,
        !.connection_projects[ws] = project_id]

\* A registration that puts every socket and identity in the default room.
register_in_default_room(m, project_id, ws, client_id, user_id) ==
    [m EXCEPT
        !.active_connections[DEFAULT_PROJECT_ID] = Append(@, ws),
        !.connection_users[ws] = user_id,
        !.users[DEFAULT_PROJECT_ID] = @ \cup {user_id},
        !.user_connections[DEFAULT_PROJECT_ID][user_id] = ws,
        !.connection_projects[ws] = DEFAULT_PROJECT_ID,
        !.client_users[DEFAULT_PROJECT_ID] =
            IF client_id # NoClient THEN [@ EXCEPT ![client_id] = user_id]
            ELSE @]

\* connect(), lines 312-319: the new socket is registered under user_id.
register(m, project_id, ws, client_id, user_id) ==
    [m EXCEPT
        !.active_connections[project_id] = Append(@, ws),
        !.connection_users[ws] = user_id,
        !.users[project_id] = @ \cup {user_id},
        !.user_connections[project_id][user_id] = ws,
        !.connection_projects[ws] = project_id,
        !.client_users[project_id] =
            IF client_id # NoClient THEN [@ EXCEPT ![client_id] = user_id]
            ELSE @]

\* ------------------------------------------------------ project payloads
\* A str is the sequence of its characters; NoStr is a value that is not a
\* str (a missing key, None, a number).
NoStr == <<"None">>
\* A "documents" value that is not a list (the key is missing).
NoDocs == <<[none |-> TRUE]>>
\* A missing "updated_at" key.
NoTs == -1
\* A document without a "pad" key.
NoPad == -1
\* A key that a dict does not hold (a project id that was never stored).
NoRaw == [none |-> TRUE]
NoHash == [none |-> TRUE]

Alnum == {"p", "b", "r", "n", "s", "h", "i"}
IsSpace(ch) == ch = " "

\* "".join(s.split()): s without its whitespace.
NoWhitespace(s) == SelectSeq(s, LAMBDA ch: ~IsSpace(ch))
\* s.strip() is non-empty.
NonBlank(s) == NoWhitespace(s) # <<>>

NBSP == <<"&", "n", "b", "s", "p", ";">>
\* s.replace("&nbsp;", " ")
RECURSIVE ReplaceNbsp(_)
ReplaceNbsp(s) ==
    IF s = <<>> THEN <<>>
    ELSE IF Len(s) >= Len(NBSP) /\ SubSeq(s, 1, Len(NBSP)) = NBSP
         THEN <<" ">> \o ReplaceNbsp(SubSeq(s, Len(NBSP) + 1, Len(s)))
    ELSE <<Head(s)>> \o ReplaceNbsp(Tail(s))

EmptyParagraphs ==
    { <<"<", "p", ">", "<", "/", "p", ">">>,
      <<"<", "p", ">", "<", "b", "r", "/", ">", "<", "/", "p", ">">>,
      <<"<", "p", ">", "<", "b", "r", ">", "<", "/", "p", ">">> }

\* The loop body of estimate_document_content_chars for one document.
doc_content_chars(doc) ==
    LET text == IF doc.text = NoStr \/ ~NonBlank(doc.text)
                THEN doc.content ELSE doc.text
        stripped == IF doc.html = NoStr THEN <<>>
                    ELSE NoWhitespace(ReplaceNbsp(doc.html))
    IN  IF text # NoStr /\ NonBlank(text) THEN Len(NoWhitespace(text))
        ELSE IF doc.html # NoStr /\ NonBlank(doc.html)
             THEN IF stripped \in EmptyParagraphs THEN 0
                  ELSE IF \E i \in 1..Len(stripped) : stripped[i] \in Alnum
                       THEN Len(stripped)
                  ELSE 0
        ELSE 0

RECURSIVE SumChars(_)
SumChars(docs) ==
    IF docs = <<>> THEN 0
    ELSE doc_content_chars(Head(docs)) + SumChars(Tail(docs))

estimate_document_content_chars(project_raw) ==
    IF project_raw.documents = NoDocs THEN 0
    ELSE SumChars(project_raw.documents)

\* The documents of the payloads clients send.  Besides "text", "content"
\* and "html" a document may hold one more key, "pad", whose value is a str
\* of that many letters x; NoPad when it holds none.
DocHi    == [text |-> <<"h", "i">>, content |-> <<>>, html |-> <<>>, pad |-> NoPad]
DocHtml  == [text |-> NoStr, content |-> NoStr,
             html |-> <<"<", "p", ">", "h", "i", "<", "/", "p", ">">>,
             pad |-> NoPad]
DocBlank == [text |-> NoStr, content |-> <<" ">>,
             html |-> <<"<", "p", ">">> \o NBSP \o <<"<", "/", "p", ">">>,
             pad |-> NoPad]
\* A document that alone is larger than MAX_PROJECT_BYTES.
DocBig   == [text |-> <<"h", "i">>, content |-> <<>>, html |-> <<>>,
             pad |-> MAX_PROJECT_BYTES]
\* A document that makes a project of NONEMPTY_PROJECT_MIN_BYTES or more.
DocLong  == [text |-> <<"h", "i">>, content |-> <<>>, html |-> <<>>,
             pad |-> NONEMPTY_PROJECT_MIN_BYTES]

Max(a, b) == IF a >= b THEN a ELSE b

\* ------------------------------------------------------------ byte sizes
RECURSIVE Digits(_)
Digits(n) == IF n < 10 THEN 1 ELSE 1 + Digits(n \div 10)

\* len(json.dumps(s)) for a str of the model's characters.
JsonStr(s) == Len(s) + 2

\* One "key":value member, or nothing when the key is missing.
Member(key_len, present, value_len) ==
    IF present THEN <<key_len + 3 + value_len>> ELSE <<>>

RECURSIVE SumSeq(_)
SumSeq(q) == IF q = <<>> THEN 0 ELSE Head(q) + SumSeq(Tail(q))

\* A JSON object or array of parts of these sizes, separators (",", ":").
JsonGroup(parts) ==
    2 + SumSeq(parts) + (IF Len(parts) > 0 THEN Len(parts) - 1 ELSE 0)

DocBytes(doc) ==
    JsonGroup(Member(7, doc.content # NoStr, JsonStr(doc.content))
              \o Member(4, doc.html # NoStr, JsonStr(doc.html))
              \o Member(3, doc.pad # NoPad, doc.pad + 2)
              \o Member(4, doc.text # NoStr, JsonStr(doc.text)))

\* estimate_project_bytes: the length of the compact, key-sorted JSON.
estimate_project_bytes(project_raw) ==
    JsonGroup(
        Member(9, project_raw.documents # NoDocs,
               IF project_raw.documents = NoDocs THEN 0
               ELSE JsonGroup([i \in 1..Len(project_raw.documents) |->
                                  DocBytes(project_raw.documents[i])]))
        \o Member(10, project_raw.updated_at # NoTs,
                  IF project_raw.updated_at = NoTs THEN 0
                  ELSE Digits(project_raw.updated_at)))

\* A check that lets every payload through.
no_project_limits(project_raw) == ""

\* validate_project_limits: the reason of the limit error, "" for none.
validate_project_limits(project_raw) ==
    LET size_bytes == estimate_project_bytes(project_raw)
    IN  IF MAX_PROJECT_BYTES > 0 /\ size_bytes > MAX_PROJECT_BYTES
        THEN "project_too_large"
        ELSE IF MAX_PROJECT_TOTAL_BYTES > 0 /\ size_bytes > MAX_PROJECT_TOTAL_BYTES
        THEN "project_total_limit_reached"
        ELSE ""

\* is_project_effectively_empty; the payloads of the model carry no codes,
\* categories, memos, core category or theory text.
is_project_effectively_empty(project_raw) ==
    IF project_raw = NoRaw THEN TRUE
    ELSE LET docs_count == IF project_raw.documents = NoDocs THEN 0
                           ELSE Len(project_raw.documents)
         IN  docs_count = 0 /\ project_raw.updated_at # NoTs

\* looks_like_content_wipe (lines 900-904 and 1317-1321).
looks_like_content_wipe(existing, project_raw) ==
    /\ existing # NoRaw
    /\ estimate_document_content_chars(existing) > 0
    /\ estimate_document_content_chars(project_raw) = 0

\* ------------------------------------------------------ stamping, hashing
\* A stamp that is the wall clock alone.
wall_clock_ms(t, previous) == t

\* monotonic_updated_at_ms(previous) at wall-clock time t.
monotonic_updated_at_ms(t, previous) ==
    LET prev_ms == IF previous # 0 THEN previous ELSE 0
    IN  Max(t, prev_ms + 1)

\* `x if isinstance(x, int) else 0` for an "updated_at" entry.
IntOr0(ts) == IF ts = NoTs THEN 0 ELSE ts

\* compute_project_hash: SHA-256 of the canonical JSON of the dict without
\* its "updated_at" key; modelled collision-free as that dict.
compute_project_hash(project_raw) == [documents |-> project_raw.documents]

\* --------------------------------------------------------------- Firestore
\* What a Firestore call can meet: the client cannot be initialised
\* (get_firestore_client returns None; only while it never was), the call
\* raises, or it goes through.
Outcomes == IF fs_ready THEN {"ok", "error"} ELSE {"ok", "error", "no_client"}
ReadyAfter(outcomes) == fs_ready \/ \E o \in outcomes : o # "no_client"

\* A read that returns the stored record even when the store fails.
load_despite_failure(fs, project_id, outcome) == fs[project_id]

\* load_project_from_firestore (lines 615-630): the "project" field of the
\* document; None when there is no client, no document or the read raises.
load_project_from_firestore(fs, project_id, outcome) ==
    IF outcome = "ok" THEN fs[project_id] ELSE NoRaw

\* A save that never consults the hash cache: every call writes.
save_without_dedup(fs, hashes, project_raw, project_id, outcome) ==
    IF outcome = "ok"
    THEN [fs |-> [fs EXCEPT ![project_id] = project_raw],
          hashes |-> [hashes EXCEPT
                         ![project_id] = compute_project_hash(project_raw)],
          ok |-> TRUE, wrote |-> TRUE]
    ELSE [fs |-> fs, hashes |-> hashes, ok |-> FALSE, wrote |-> FALSE]

\* save_project_to_firestore; `wrote` tells whether doc_ref.set went through.
save_project_to_firestore(fs, hashes, project_raw, project_id, outcome) ==
    LET current_hash == compute_project_hash(project_raw)
    IN  IF outcome = "no_client"
        THEN [fs |-> fs, hashes |-> hashes, ok |-> FALSE, wrote |-> FALSE]
        ELSE IF current_hash = hashes[project_id]
        THEN [fs |-> fs, hashes |-> hashes, ok |-> TRUE, wrote |-> FALSE]
        ELSE IF outcome = "ok"
        THEN [fs |-> [fs EXCEPT ![project_id] = project_raw],
              hashes |-> [hashes EXCEPT ![project_id] = current_hash],
              ok |-> TRUE, wrote |-> TRUE]
        ELSE [fs |-> fs, hashes |-> hashes, ok |-> FALSE, wrote |-> FALSE]

\* ensure_project_loaded, given what load_project_from_firestore returned.
\* in_memory_projects is the normalized view of the raw dict (an empty
\* ProjectState when there is none), so lines 407-411 never apply.
ensure_project_loaded(raws, hashes, project_id, project_raw) ==
    IF project_raw # NoRaw
    THEN [raws |-> [raws EXCEPT ![project_id] = project_raw],
          hashes |-> [hashes EXCEPT
                         ![project_id] = compute_project_hash(project_raw)]]
    ELSE [raws |-> raws, hashes |-> hashes]

\* websocket_endpoint, lines 779-787: the raw dict the hello carries, after
\* the in-place re-stamp (of a throw-away {} when the room holds none).
restamp(project_raw, t) ==
    LET prev_ms == IF project_raw = NoRaw THEN 0 ELSE IntOr0(project_raw.updated_at)
        next_ms == Max(t, prev_ms)
        base == IF project_raw = NoRaw
                THEN [documents |-> NoDocs, updated_at |-> NoTs]
                ELSE project_raw
    IN  IF next_ms # 0 /\ prev_ms # next_ms
        THEN [base EXCEPT !.updated_at = next_ms]
        ELSE base

\* ------------------------------------------------------- REST responses
\* What a write endpoint answers: the HTTP status code and the "status" and
\* "reason" entries of the body.
NoResponse == [code |-> 0, status |-> "", reason |-> ""]

\* Lines 1300-1305, 1401-1406, 1440-1445: `{"status": "error", **limit_error}`.
limit_response(reason) ==
    [code |-> 200, status |-> "error", reason |-> reason]

\* Lines 1342-1349 and 1361-1368: JSONResponse(status_code=409, ...).
refusal_response(reason) ==
    [code |-> 409, status |-> "error", reason |-> reason]

\* An endpoint that answers "ok" whatever the save returned.
ok_response(saved_ok) ==
    [code |-> 200, status |-> "ok", reason |-> ""]

\* Lines 1372-1387, 1411-1428, 1448-1458: what follows the save.
save_response(saved_ok) ==
    IF ~saved_ok
    THEN [code |-> 503, status |-> "error", reason |-> ""]
    ELSE [code |-> 200, status |-> "ok", reason |-> ""]

\* ---------------------------------------------------------------- tasks
NoMsg == [type |-> "", raw |-> NoRaw, update |-> 0, updates |-> <<>>,
          users |-> {}, ts |-> NoTs]

\* A task before it starts.  pc: "new" (a handler not yet called; "idle" for
\* the REST task), "closing" (connect awaits old_socket.close), "hello" and
\* "sync" (the handler awaits that send), "loop" (it awaits receive_text),
\* "reply" (it awaits a send to its own socket), "bcast" (it awaits a send
\* inside broadcast / broadcast_except), "done" (returned), "failed" (left
\* by an exception nothing caught).
\* A user name is <<adjective, noun, suffix>>: f"{first} {second}" when the
\* suffix is 0, f"{first} {second} {suffix}" otherwise.
NoName == <<"", "", 0>>

NewTask(t) ==
    [pc        |-> IF t = RestTask THEN "idle" ELSE "new",
     room      |-> NoRoom,     \* project_id
     client_id |-> NoClient,
     existing  |-> NoUser,     \* connect(): existing_user, over the await
     msg       |-> NoMsg,      \* the inbound message being handled
     reason    |-> "",         \* of the project:save:error being sent
     after     |-> "",         \* what follows the send to the own socket
     pong      |-> NoTs,       \* "ts" of the pong being sent
     attempt   |-> 0,          \* _generate_user_name: the for loop's count
     suffix    |-> 0,          \* _generate_user_name: the while loop's suffix
     name      |-> NoName,     \* _generate_user_name: the name returned
     kind      |-> "",         \* type of the message being broadcast
     tag       |-> NoRoom,     \* its "project_id" entry
     todo      |-> <<>>,       \* connections of the loop still to come
     snap      |-> {},         \* history: the connections the loop started with
     att       |-> {},         \* history: those it has called send_json on
     rest      |-> <<>>,       \* broadcasts that follow this one
     cont      |-> ""]         \* pc after the last broadcast

\* A broadcast that sends the message as it was handed in.
message_as_is(own, project_id) == own

\* Lines 345-346 and 355-356: the "project_id" entry of the message that is
\* sent, own being the entry the caller's dict has (NoRoom for none).
with_project_id(own, project_id) ==
    IF own = NoRoom THEN project_id ELSE own

\* No dict that the handler or an endpoint hands to broadcast /
\* broadcast_except has a "project_id" key of its own (lines 804-807, 830-871,
\* 939-947, 962-971, 1419-1426, 1456).
NoOwnProjectId == NoRoom

\* The message types that the handler relays with broadcast_except (lines
\* 834-874); the handler then holds the inbound message of that type, which
\* tells the relay of a cursor:clear from the cursor:clear that
\* manager.broadcast sends to everybody after a disconnect (line 967).
ExceptKinds == {"cursor:update", "cursor:clear", "selection:update",
                "selection:clear", "yjs:update"}

\* Back at `await websocket.receive_text()` (or returned): locals dropped.
Settle(hr, pc) ==
    [NewTask(1) EXCEPT !.pc = pc, !.room = hr.room, !.client_id = hr.client_id]

\* A broadcast that loops over the connections of every room.
RECURSIVE AllConnections(_, _)
AllConnections(m, rooms) ==
    IF rooms = {} THEN <<>>
    ELSE LET r == CHOOSE x \in rooms : TRUE
         IN  m.active_connections[r] \o AllConnections(m, rooms \ {r})

broadcast_to_every_room(hr, m, kinds, cont, self) ==
    LET kind == Head(kinds)
        conns == AllConnections(m, Rooms)
        todo == IF kind \in ExceptKinds /\ hr.msg.type = kind
                THEN SelectSeq(conns, LAMBDA x : x # self) ELSE conns
    IN  IF todo = <<>> THEN Settle(hr, cont)
        ELSE [hr EXCEPT !.pc = "bcast", !.kind = kind, !.todo = todo,
                        !.tag = with_project_id(NoOwnProjectId, hr.room),
                        !.snap = Range(todo), !.att = {},
                        !.rest = Tail(kinds), !.cont = cont,
                        !.reason = "", !.after = ""]

\* A broadcast_except that sends to the skipped connection as well.
broadcast_to_sender_too(hr, m, kinds, cont, self) ==
    LET kind == Head(kinds)
        todo == m.active_connections[hr.room]
    IN  IF todo = <<>> THEN Settle(hr, cont)
        ELSE [hr EXCEPT !.pc = "bcast", !.kind = kind, !.todo = todo,
                        !.tag = with_project_id(NoOwnProjectId, hr.room),
                        !.snap = Range(todo), !.att = {},
                        !.rest = Tail(kinds), !.cont = cont,
                        !.reason = "", !.after = ""]

\* A broadcast that leaves out the connections whose join has not sent its
\* hello and yjs:sync yet.
broadcast_to_joined_only(hr, m, kinds, cont, self) ==
    LET kind == Head(kinds)
        conns == SelectSeq(m.active_connections[hr.room],
                           LAMBDA x : h[x].pc \notin {"hello", "sync"})
        todo == IF kind \in ExceptKinds /\ hr.msg.type = kind
                THEN SelectSeq(conns, LAMBDA x : x # self) ELSE conns
    IN  IF todo = <<>> THEN Settle(hr, cont)
        ELSE [hr EXCEPT !.pc = "bcast", !.kind = kind, !.todo = todo,
                        !.tag = with_project_id(NoOwnProjectId, hr.room),
                        !.snap = Range(todo), !.att = {},
                        !.rest = Tail(kinds), !.cont = cont,
                        !.reason = "", !.after = ""]

\* manager.broadcast / broadcast_except called by task `self` with manager
\* state m: the loop over list(active_connections[project_id]) begins (and
\* ends at once when there is nobody to send to).
BeginBroadcast(hr, m, kinds, cont, self) ==
    LET kind == Head(kinds)
        conns == m.active_connections[hr.room]
        todo == IF kind \in ExceptKinds /\ hr.msg.type = kind
                THEN SelectSeq(conns, LAMBDA x : x # self) ELSE conns
    IN  IF todo = <<>> THEN Settle(hr, cont)
        ELSE [hr EXCEPT !.pc = "bcast", !.kind = kind, !.todo = todo,
                        !.tag = with_project_id(NoOwnProjectId, hr.room),
                        !.snap = Range(todo), !.att = {},
                        !.rest = Tail(kinds), !.cont = cont,
                        !.reason = "", !.after = ""]

\* A loop that a failed send_json ends.
abort_after_failed_send(todo) == <<>>

\* The except branch of the loop: a failed send_json disconnects the
\* recipient and the loop goes on.  Returns what is left of the loop.
after_failed_send(todo) == Tail(todo)

\* websocket_endpoint, lines 960-971, after WebSocketDisconnect.
DisconnectKinds(user_id) ==
    IF user_id # NoUser
    THEN <<"presence:update", "cursor:clear", "selection:clear">>
    ELSE <<"presence:update">>

\* What `await ws.send_json(...)` can do, by the state of the socket: on an
\* open one it is "sent", or the peer has gone and it raises
\* WebSocketDisconnect ("disconnect"); on a closed one it raises RuntimeError
\* ("error").  A socket is "closed" from the first call that met the peer
\* gone, or from the server's close.
SendOutcomes(s) == IF s = "open" THEN {"sent", "disconnect"} ELSE {"error"}

SockAfter(ws, out) ==
    IF out = "disconnect" THEN [sock EXCEPT ![ws] = "closed"] ELSE sock

Init ==
    /\ mgr = ManagerInit
    /\ user_objs = [u \in Uids |-> [client_id |-> NoClient]]
    /\ next_uid = 0
    /\ sock = [c \in Conns |-> "new"]
    /\ h = [t \in Tasks |-> NewTask(t)]
    /\ now = 1
    /\ in_memory_project_raws = [r \in Rooms |-> NoRaw]
    /\ firestore = [r \in Rooms |-> NoRaw]
    /\ fs_ready = FALSE
    /\ last_saved_project_hash = [r \in Rooms |-> NoHash]
    /\ yjs_update_logs = [r \in Rooms |-> <<>>]
    /\ yjs_n = [r \in Rooms |-> 0]
    /\ ws_last = [r \in Rooms |-> 0]
    /\ write_last = [r \in Rooms |-> 0]
    /\ last_save = [r \in Rooms |-> [none |-> TRUE]]
    /\ missed = {}
    /\ response = NoResponse

\* ------------------------------------------------------------- the clock
Tick ==
    /\ now < MaxClock
    /\ now' = now + 1
    /\ UNCHANGED <<mvars, sock, h, svars, yvars, gvars, missed, response>>

\* ------------------------------------------------------------- joining
\* connect() from line 299 and websocket_endpoint up to the await of the
\* hello send (line 789): no await in between.  m is the manager as connect
\* finds it, eu the user dict it reuses, o what the Firestore read meets.
JoinStep(c, room, cid, m, eu, o) ==
    LET mint == eu = NoUser
        user_id == IF mint THEN next_uid + 1 ELSE eu
        loaded == load_project_from_firestore(firestore, room, o)
        el == ensure_project_loaded(in_memory_project_raws,
                                    last_saved_project_hash, room, loaded)
        project_raw == restamp(el.raws[room], now)
    IN  /\ mgr' = register(m, room, c, cid, user_id)
        /\ next_uid' = IF mint THEN user_id ELSE next_uid
        /\ user_objs' = IF mint \/ cid # NoClient
                        THEN [user_objs EXCEPT ![user_id].client_id = cid]
                        ELSE user_objs
        /\ in_memory_project_raws' =
               IF el.raws[room] = NoRaw THEN el.raws
               ELSE [el.raws EXCEPT ![room] = project_raw]
        /\ last_saved_project_hash' = el.hashes
        /\ fs_ready' = ReadyAfter({o})
        /\ h' = [h EXCEPT ![c] = [NewTask(c) EXCEPT !.pc = "hello",
                                     !.room = room, !.client_id = cid,
                                     !.msg = [NoMsg EXCEPT
                                                 !.type = "hello",
                                                 !.users = get_users(mgr', room),
                                                 !.raw = project_raw]]]
        /\ UNCHANGED <<now, firestore, yvars, gvars, missed, response>>

\* websocket_endpoint is called for a new WebSocket: connect() accepts it
\* and looks the client_id up.  An old socket still bound to the identity
\* leaves the registries and connect awaits its close; if that socket is
\* closed already, close raises at once and connect goes on.
Accept(c, room, cid, o) ==
    LET old == old_socket(mgr, room, cid)
        eu == existing_user(mgr, room, cid)
        m == IF old # NoConn THEN drop_old_socket(mgr, room, old) ELSE mgr
    IN  /\ h[c].pc = "new"
        /\ c = 1 \/ h[c - 1].pc # "new"
        /\ o \in Outcomes
        /\ IF old # NoConn /\ sock[old] = "open"
           THEN /\ sock' = [sock EXCEPT ![c] = "open", ![old] = "closed"]
                /\ mgr' = m
                /\ h' = [h EXCEPT ![c] = [NewTask(c) EXCEPT !.pc = "closing",
                                             !.room = room, !.client_id = cid,
                                             !.existing = eu]]
                /\ UNCHANGED <<user_objs, next_uid, now, svars, yvars, gvars, missed, response>>
           ELSE /\ sock' = [sock EXCEPT ![c] = "open"]
                /\ JoinStep(c, room, cid, m, eu, o)

\* connect() resumes after `await old_socket.close(...)`.
Register(c, o) ==
    /\ h[c].pc = "closing"
    /\ o \in Outcomes
    /\ JoinStep(c, h[c].room, h[c].client_id, mgr, h[c].existing, o)
    /\ UNCHANGED sock

\* The hello send ends; the handler reads the update log and sends yjs:sync.
SendHello(c, out) ==
    /\ h[c].pc = "hello"
    /\ out \in SendOutcomes(sock[c])
    /\ h' = [h EXCEPT ![c] =
                IF out = "sent"
                THEN [@ EXCEPT !.pc = "sync",
                               !.msg = [NoMsg EXCEPT
                                           !.type = "yjs:sync",
                                           !.updates = yjs_update_logs[h[c].room]]]
                ELSE Settle(@, "failed")]
    /\ sock' = SockAfter(c, out)
    /\ UNCHANGED <<mvars, now, svars, yvars, gvars, missed, response>>

\* The yjs:sync send ends; the handler broadcasts presence:update.
SendSync(c, out) ==
    /\ h[c].pc = "sync"
    /\ out \in SendOutcomes(sock[c])
    /\ h' = [h EXCEPT ![c] =
                IF out = "sent"
                THEN BeginBroadcast(@, mgr, <<"presence:update">>, "loop", c)
                ELSE Settle(@, "failed")]
    /\ sock' = SockAfter(c, out)
    /\ UNCHANGED <<mvars, now, svars, yvars, gvars, missed, response>>

\* -------------------------------------------------------- broadcasting
\* One turn of the loop of broadcast / broadcast_except run by task t: the
\* send to the next connection ends, and on an exception that connection is
\* disconnected.  After the last one the task goes on to what follows; the
\* REST task then returns its "ok".
BroadcastStep(t, out) ==
    LET hr == h[t]
        r == Head(hr.todo)
        m == IF out = "sent" THEN mgr ELSE disconnect(mgr, user_objs, r)
        left == IF out = "sent" THEN Tail(hr.todo) ELSE after_failed_send(hr.todo)
        att == hr.att \cup {r}
    IN  /\ hr.pc = "bcast"
        /\ out \in SendOutcomes(sock[r])
        /\ mgr' = m
        /\ IF left # <<>>
           THEN /\ h' = [h EXCEPT ![t].todo = left, ![t].att = att]
                /\ UNCHANGED missed
           ELSE /\ missed' = missed \cup (hr.snap \ att)
                /\ h' = [h EXCEPT ![t] =
                            IF hr.rest = <<>> THEN Settle(hr, hr.cont)
                            ELSE BeginBroadcast(hr, m, hr.rest, hr.cont, t)]
        /\ sock' = SockAfter(r, out)
        /\ response' = IF t = RestTask /\ h'[t].pc = "idle"
                       THEN save_response(TRUE)
                       ELSE response
        /\ UNCHANGED <<user_objs, next_uid, now, svars, yvars, gvars>>

\* ---------------------------------------------------------- leaving
\* WebSocketDisconnect reaches the except clause of the message loop.
Leave(c, hr) ==
    LET user_id == mgr.connection_users[c]
        m == disconnect(mgr, user_objs, c)
    IN  /\ mgr' = m
        /\ h' = [h EXCEPT ![c] =
                    BeginBroadcast(Settle(hr, "loop"), m,
                                   DisconnectKinds(user_id), "done", c)]

\* receive_text raises WebSocketDisconnect: the peer has gone, or the
\* socket was closed.
RecvDisconnect(c) ==
    /\ h[c].pc = "loop"
    /\ Leave(c, h[c])
    /\ sock' = [sock EXCEPT ![c] = "closed"]
    /\ UNCHANGED <<user_objs, next_uid, now, svars, yvars, gvars, missed, response>>

\* ------------------------------------------------------ the message loop
\* A handler that takes its next message while its broadcast is under way.
receive_during_broadcast(c) == h[c].pc \in {"loop", "bcast"}

\* The handler is at `await websocket.receive_text()` (line 810), which
\* returns a message: one the peer sent before the socket was closed, if it
\* is.
CanReceive(c) == h[c].pc = "loop"

\* A pong that carries no timestamp.
pong_without_ts(data) == NoTs

\* The "ts" entry of the pong (line 822): data.get("ts").
pong_ts(data) == data.ts

\* {"type": "ping", "ts": ts}: the pong is sent to the sender.
RecvPing(c, ts) ==
    /\ CanReceive(c)
    /\ h' = [h EXCEPT ![c] =
                LET data == [NoMsg EXCEPT !.type = "ping", !.ts = ts]
                IN  [@ EXCEPT !.pc = "reply", !.after = "loop", !.msg = data,
                              !.pong = pong_ts(data)]]
    /\ UNCHANGED <<mvars, sock, now, svars, yvars, gvars, missed, response>>

\* A send to the handler's own socket ends (pong, project:save:error).
Reply(c, out) ==
    /\ h[c].pc = "reply"
    /\ out \in SendOutcomes(sock[c])
    /\ CASE out = "sent" ->
              /\ h' = [h EXCEPT ![c] =
                          IF @.after = "bcast"
                          THEN BeginBroadcast(@, mgr, <<"project:update">>, "loop", c)
                          ELSE Settle(@, "loop")]
              /\ UNCHANGED mgr
         [] out = "disconnect" -> Leave(c, h[c])
         [] OTHER ->
              /\ h' = [h EXCEPT ![c] = Settle(@, "failed")]
              /\ UNCHANGED mgr
    /\ sock' = SockAfter(c, out)
    /\ UNCHANGED <<user_objs, next_uid, now, svars, yvars, gvars, missed, response>>

\* {"type": "cursor:update"}: relayed to the others when the sender is bound
\* to a user.
RecvCursor(c) ==
    /\ CanReceive(c)
    /\ h' = [h EXCEPT ![c] =
                IF mgr.connection_users[c] # NoUser
                THEN BeginBroadcast([@ EXCEPT !.msg = [NoMsg EXCEPT !.type = "cursor:update"]],
                                    mgr, <<"cursor:update">>, "loop", c)
                ELSE @]
    /\ UNCHANGED <<mvars, sock, now, svars, yvars, gvars, missed, response>>

\* {"type": "presence:rename", "name": a non-blank name} (lines 824-833): the
\* member list is broadcast to the room when the sender is bound to a user.
RecvRename(c) ==
    /\ CanReceive(c)
    /\ h' = [h EXCEPT ![c] =
                IF mgr.connection_users[c] # NoUser
                THEN BeginBroadcast([@ EXCEPT !.msg = [NoMsg EXCEPT !.type = "presence:rename"]],
                                    mgr, <<"presence:update">>, "loop", c)
                ELSE @]
    /\ UNCHANGED <<mvars, sock, now, svars, yvars, gvars, missed, response>>

\* {"type": kind} for cursor:clear, selection:update and selection:clear
\* (lines 841-859): relayed to the others when the sender is bound to a user.
RecvRelay(c, kind) ==
    /\ CanReceive(c)
    /\ h' = [h EXCEPT ![c] =
                IF mgr.connection_users[c] # NoUser
                THEN BeginBroadcast([@ EXCEPT !.msg = [NoMsg EXCEPT !.type = kind]],
                                    mgr, <<kind>>, "loop", c)
                ELSE @]
    /\ UNCHANGED <<mvars, sock, now, svars, yvars, gvars, missed, response>>

\* A log that, once full, keeps its oldest entries and drops the new one.
append_keep_oldest(log, update) ==
    IF Len(log) >= yjs_update_limit THEN log ELSE Append(log, update)

\* Lines 863-866: the log after appending `update`.
append_update(log, update) ==
    LET appended == Append(log, update)
    IN  IF Len(appended) > yjs_update_limit
        THEN SubSeq(appended, Len(appended) - yjs_update_limit + 1, Len(appended))
        ELSE appended

\* {"type": "yjs:update", "update": blob}; the n-th blob accepted in a room
\* is n.  cap bounds the appends per room.
RecvYjs(c, cap) ==
    LET room == h[c].room
        update == yjs_n[room] + 1
    IN  /\ CanReceive(c)
        /\ yjs_n[room] < cap
        /\ IF mgr.connection_users[c] # NoUser
           THEN /\ yjs_update_logs' =
                       [yjs_update_logs EXCEPT ![room] = append_update(@, update)]
                /\ yjs_n' = [yjs_n EXCEPT ![room] = update]
                /\ h' = [h EXCEPT ![c] =
                            BeginBroadcast([@ EXCEPT !.msg = [NoMsg EXCEPT
                                                !.type = "yjs:update", !.update = update]],
                                           mgr, <<"yjs:update">>, "loop", c)]
           ELSE UNCHANGED <<yvars, h>>
        /\ UNCHANGED <<mvars, sock, now, svars, gvars, missed, response>>

\* A handler that goes on to the broadcast after any project:save:error.
broadcast_after_any_error(reason) == "bcast"

\* What follows the send of a project:save:error: `continue` after a limit
\* error (line 887) or a refused wipe (line 918), the broadcast of line 939
\* after a failed save.
after_error_reply(reason) ==
    IF reason = "firestore_error" THEN "bcast" ELSE "loop"

SaveRecord(project_raw, sv, before) ==
    [hash |-> compute_project_hash(project_raw), ok |-> sv.ok, wrote |-> sv.wrote,
     odd |-> IF before = [none |-> TRUE] THEN TRUE ELSE ~before.odd]

\* {"type": "project:update", "project_raw": {"documents": docs,
\* "updated_at": ts}}; o1 is what the read of the persisted record meets, o2
\* what the write meets.
RecvProjectUpdate(c, docs, ts, o1, o2) ==
    LET room == h[c].room
        project_raw == [documents |-> docs, updated_at |-> ts]
        limit_error == validate_project_limits(project_raw)
        existing == load_project_from_firestore(firestore, room, o1)
        current_raw == in_memory_project_raws[room]
        previous_ms == IF current_raw = NoRaw THEN 0 ELSE IntOr0(current_raw.updated_at)
        stamp == monotonic_updated_at_ms(now, previous_ms)
        stamped == [project_raw EXCEPT !.updated_at = stamp]
        sv == save_project_to_firestore(firestore, last_saved_project_hash,
                                        stamped, room, o2)
        msg == [NoMsg EXCEPT !.type = "project:update", !.raw = project_raw]
    IN  /\ CanReceive(c)
        /\ o1 \in Outcomes
        /\ o2 \in Outcomes /\ (o2 = "no_client" => o1 = "no_client")
        /\ IF mgr.connection_users[c] = NoUser
           THEN UNCHANGED <<h, svars, gvars>>
           ELSE IF limit_error # ""
           THEN /\ h' = [h EXCEPT ![c].pc = "reply",
                                  ![c].after = after_error_reply(limit_error),
                                  ![c].reason = limit_error, ![c].msg = msg]
                /\ UNCHANGED <<svars, gvars>>
           ELSE IF looks_like_content_wipe(existing, project_raw)
           THEN /\ h' = [h EXCEPT ![c].pc = "reply",
                                  ![c].after = after_error_reply("content_wipe"),
                                  ![c].reason = "content_wipe", ![c].msg = msg]
                /\ fs_ready' = ReadyAfter({o1})
                /\ UNCHANGED <<in_memory_project_raws, firestore,
                               last_saved_project_hash, gvars>>
           ELSE /\ stamp <= MaxStamp
                /\ in_memory_project_raws' =
                       [in_memory_project_raws EXCEPT ![room] = stamped]
                /\ firestore' = sv.fs
                /\ last_saved_project_hash' = sv.hashes
                /\ fs_ready' = ReadyAfter({o1, o2})
                /\ ws_last' = [ws_last EXCEPT ![room] = stamp]
                /\ write_last' = [write_last EXCEPT ![room] = stamp]
                /\ last_save' = [last_save EXCEPT
                                    ![room] = SaveRecord(stamped, sv, @)]
                /\ h' = [h EXCEPT ![c] =
                            IF ~sv.ok
                            THEN [@ EXCEPT !.pc = "reply",
                                           !.after = after_error_reply("firestore_error"),
                                           !.reason = "firestore_error",
                                           !.msg = [msg EXCEPT !.raw = stamped]]
                            ELSE BeginBroadcast([@ EXCEPT !.msg = [msg EXCEPT !.raw = stamped]],
                                                mgr, <<"project:update">>, "loop", c)]
        /\ UNCHANGED <<mvars, sock, now, yvars, missed, response>>

\* A "project_raw" that is not a dict: a non-empty list or str.
NotADict == [list |-> TRUE]

\* {"type": "project:update", "project_raw": [...]}: lines 878-919 are
\* skipped, and the item assignment of line 928 raises TypeError, which the
\* `except WebSocketDisconnect` of line 948 does not catch: the handler ends
\* with it and the server closes the socket.
RecvNonObjectUpdate(c) ==
    /\ CanReceive(c)
    /\ IF mgr.connection_users[c] = NoUser
       THEN UNCHANGED <<h, sock>>
       ELSE /\ h' = [h EXCEPT ![c] =
                        [Settle(@, "failed") EXCEPT
                            !.msg = [NoMsg EXCEPT !.type = "project:update",
                                                  !.raw = NotADict]]]
            /\ sock' = [sock EXCEPT ![c] = "closed"]
    /\ UNCHANGED <<mvars, now, svars, yvars, gvars, missed, response>>

\* A handler that an undecodable text ends.
fail_on_undecodable(hr) ==
    [Settle(hr, "failed") EXCEPT !.msg = [NoMsg EXCEPT !.type = "(undecodable)"]]

\* Lines 812-815: json.loads raises and the loop continues; the local `raw`
\* keeps the text.
after_undecodable(hr) ==
    [Settle(hr, "loop") EXCEPT !.msg = [NoMsg EXCEPT !.type = "(undecodable)"]]

\* A text that is not JSON arrives.
RecvUndecodable(c) ==
    /\ CanReceive(c)
    /\ h' = [h EXCEPT ![c] = after_undecodable(@)]
    /\ UNCHANGED <<mvars, sock, now, svars, yvars, gvars, missed, response>>

\* -------------------------------------------------------- REST endpoints
\* Lines 1309-1368: the reason the write is refused for, "" for none.
overwrite_refusal(existing, project_raw) ==
    LET incoming_bytes == estimate_project_bytes(project_raw)
        existing_bytes == IF existing # NoRaw THEN estimate_project_bytes(existing) ELSE 0
        looks_empty == is_project_effectively_empty(project_raw) \/ incoming_bytes <= 32
        looks_suspiciously_small ==
            /\ existing # NoRaw
            /\ existing_bytes >= NONEMPTY_PROJECT_MIN_BYTES
            /\ incoming_bytes <= EMPTY_OVERWRITE_MAX_BYTES
    IN  IF /\ looks_empty \/ looks_suspiciously_small
           /\ existing # NoRaw
           /\ ~is_project_effectively_empty(existing)
        THEN "empty_overwrite"
        ELSE IF looks_like_content_wipe(existing, project_raw)
        THEN "content_wipe"
        ELSE ""

\* POST /projects/{project_id}/state with {"project_raw": {"documents": docs,
\* "updated_at": ts}, "force": force}.  The endpoint awaits nothing.
SetProjectStateForProject(room, docs, ts, force, o1, o2) ==
    LET stamp == monotonic_updated_at_ms(now, IntOr0(ts))
        project_raw == [documents |-> docs, updated_at |-> stamp]
        limit_error == validate_project_limits(project_raw)
        existing == load_project_from_firestore(firestore, room, o1)
        refusal == IF force THEN "" ELSE overwrite_refusal(existing, project_raw)
        sv == save_project_to_firestore(firestore, last_saved_project_hash,
                                        project_raw, room, o2)
    IN  /\ o1 \in Outcomes
        /\ o2 \in Outcomes /\ (o2 = "no_client" => (force \/ o1 = "no_client"))
        /\ force => o1 = "ok"
        /\ stamp <= MaxStamp
        /\ IF limit_error # ""
           THEN /\ response' = limit_response(limit_error)
                /\ UNCHANGED <<svars, gvars>>
           ELSE IF refusal # ""
           THEN /\ response' = refusal_response(refusal)
                /\ fs_ready' = ReadyAfter({o1})
                /\ UNCHANGED <<in_memory_project_raws, firestore,
                               last_saved_project_hash, gvars>>
           ELSE /\ response' = save_response(sv.ok)
                /\ in_memory_project_raws' =
                       [in_memory_project_raws EXCEPT ![room] = project_raw]
                /\ firestore' = sv.fs
                /\ last_saved_project_hash' = sv.hashes
                /\ fs_ready' = ReadyAfter(IF force THEN {o2} ELSE {o1, o2})
                /\ write_last' = [write_last EXCEPT ![room] = stamp]
                /\ last_save' = [last_save EXCEPT
                                    ![room] = SaveRecord(project_raw, sv, @)]
                /\ UNCHANGED ws_last
        /\ UNCHANGED <<mvars, sock, h, now, yvars, missed>>

\* POST /project/state: the default project; broadcasts when the save went
\* through.
SetProjectState(docs, ts, o2) ==
    LET room == DEFAULT_PROJECT_ID
        stamp == monotonic_updated_at_ms(now, IntOr0(ts))
        project_raw == [documents |-> docs, updated_at |-> stamp]
        limit_error == validate_project_limits(project_raw)
        sv == save_project_to_firestore(firestore, last_saved_project_hash,
                                        project_raw, room, o2)
    IN  /\ h[RestTask].pc = "idle"
        /\ o2 \in Outcomes
        /\ stamp <= MaxStamp
        /\ IF limit_error # ""
           THEN /\ response' = limit_response(limit_error)
                /\ UNCHANGED <<svars, gvars, h>>
           ELSE /\ in_memory_project_raws' =
                       [in_memory_project_raws EXCEPT ![room] = project_raw]
                /\ firestore' = sv.fs
                /\ last_saved_project_hash' = sv.hashes
                /\ fs_ready' = ReadyAfter({o2})
                /\ write_last' = [write_last EXCEPT ![room] = stamp]
                /\ last_save' = [last_save EXCEPT
                                    ![room] = SaveRecord(project_raw, sv, @)]
                /\ UNCHANGED ws_last
                /\ h' = [h EXCEPT ![RestTask] =
                            IF sv.ok
                            THEN BeginBroadcast([@ EXCEPT !.room = room],
                                                mgr, <<"project:update">>, "idle",
                                                RestTask)
                            ELSE @]
                /\ response' = IF ~sv.ok \/ h'[RestTask].pc = "idle"
                               THEN save_response(sv.ok)
                               ELSE response
        /\ UNCHANGED <<mvars, sock, now, yvars, missed>>

\* ProjectState.model_validate_json(...).model_dump() of a document: keys
\* that DocumentItem does not declare are dropped.
model_dump_doc(doc) ==
    [text |-> IF doc.text = NoStr THEN <<>> ELSE doc.text,
     content |-> doc.content,
     html |-> IF doc.html = NoStr THEN <<>> ELSE doc.html,
     pad |-> NoPad]

\* POST /project/load of a backup file with these documents: the raw dict
\* is the model_dump, which has no updated_at.
LoadProject(docs, o2) ==
    LET room == DEFAULT_PROJECT_ID
        project_raw == [documents |-> [i \in 1..Len(docs) |-> model_dump_doc(docs[i])],
                        updated_at |-> NoTs]
        limit_error == validate_project_limits(project_raw)
        sv == save_project_to_firestore(firestore, last_saved_project_hash,
                                        project_raw, room, o2)
    IN  /\ h[RestTask].pc = "idle"
        /\ o2 \in Outcomes
        /\ \A i \in 1..Len(docs) : docs[i].content # NoStr
        /\ IF limit_error # ""
           THEN /\ response' = limit_response(limit_error)
                /\ UNCHANGED <<svars, last_save, h>>
           ELSE /\ in_memory_project_raws' =
                       [in_memory_project_raws EXCEPT ![room] = project_raw]
                /\ firestore' = sv.fs
                /\ last_saved_project_hash' = sv.hashes
                /\ fs_ready' = ReadyAfter({o2})
                /\ last_save' = [last_save EXCEPT
                                    ![room] = SaveRecord(project_raw, sv, @)]
                /\ h' = [h EXCEPT ![RestTask] =
                            IF sv.ok
                            THEN BeginBroadcast([@ EXCEPT !.room = room],
                                                mgr, <<"project_state">>, "idle",
                                                RestTask)
                            ELSE @]
                /\ response' = IF ~sv.ok \/ h'[RestTask].pc = "idle"
                               THEN save_response(sv.ok)
                               ELSE response
        /\ UNCHANGED <<mvars, sock, now, yvars, ws_last, write_last, missed>>

\* ------------------------------------------------------- specifications
AllOutcomes == {"ok", "error", "no_client"}
SendResults == {"sent", "disconnect", "error"}
ClientTs == {NoTs, FutureTs}
PayloadDocs == {<<>>, <<DocHi>>, <<DocBlank>>, <<DocHtml>>, <<DocBig>>}

Next ==
    \/ Tick
    \/ \E c \in Conns, room \in Rooms, cid \in ClientIds \cup {NoClient},
          o \in AllOutcomes : Accept(c, room, cid, o)
    \/ \E c \in Conns, o \in AllOutcomes : Register(c, o)
    \/ \E c \in Conns, out \in SendResults : SendHello(c, out)
    \/ \E c \in Conns, out \in SendResults : SendSync(c, out)
    \/ \E t \in Tasks, out \in SendResults : BroadcastStep(t, out)
    \/ \E c \in Conns : RecvDisconnect(c)
    \/ \E c \in Conns, ts \in ClientTs : RecvPing(c, ts)
    \/ \E c \in Conns, out \in SendResults : Reply(c, out)
    \/ \E c \in Conns : RecvCursor(c)
    \/ \E c \in Conns : RecvYjs(c, MaxYjs)
    \/ \E c \in Conns : RecvUndecodable(c)
    \/ \E c \in Conns : RecvNonObjectUpdate(c)
    \/ \E c \in Conns, docs \in PayloadDocs, ts \in ClientTs,
          o1 \in AllOutcomes, o2 \in AllOutcomes :
          RecvProjectUpdate(c, docs, ts, o1, o2)
    \/ \E room \in Rooms, docs \in PayloadDocs, ts \in ClientTs,
          force \in BOOLEAN, o1 \in AllOutcomes, o2 \in AllOutcomes :
          SetProjectStateForProject(room, docs, ts, force, o1, o2)
    \/ \E docs \in PayloadDocs, ts \in ClientTs, o2 \in AllOutcomes :
          SetProjectState(docs, ts, o2)
    \/ \E docs \in PayloadDocs, o2 \in AllOutcomes : LoadProject(docs, o2)

Spec == Init /\ [][Next]_vars

\* Reattachment: every connection joins the default room with the same
\* client id, so each join finds the identity of the one before.
NextRegistry ==
    \/ \E c \in Conns : Accept(c, DEFAULT_PROJECT_ID, "k1", "ok")
    \/ \E c \in Conns : Register(c, "ok")
    \/ \E c \in Conns, out \in SendResults : SendHello(c, out)
    \/ \E c \in Conns, out \in SendResults : SendSync(c, out)
    \/ \E t \in Conns, out \in SendResults : BroadcastStep(t, out)
    \/ \E c \in Conns : RecvDisconnect(c)
    \/ \E c \in Conns : RecvCursor(c)

SpecRegistry == Init /\ [][NextRegistry]_vars

\* Relays: connections without a client id, the second one in room "p1" and
\* the others in the default room.
RoomOf(c) == IF c = 2 THEN "p1" ELSE DEFAULT_PROJECT_ID

NextRelay ==
    \/ \E c \in Conns : Accept(c, RoomOf(c), NoClient, "ok")
    \/ \E c \in Conns, out \in SendResults : SendHello(c, out)
    \/ \E c \in Conns, out \in SendResults : SendSync(c, out)
    \/ \E t \in Conns, out \in SendResults : BroadcastStep(t, out)
    \/ \E c \in Conns : RecvDisconnect(c)
    \/ \E c \in Conns : RecvCursor(c)

SpecRelay == Init /\ [][NextRelay]_vars

\* The write path of the default room: connection 1 writes, connection 2
\* joins and listens, and a REST client posts a state that carries a
\* timestamp of its own.
StoreConns == {1, 2}
StoreWriters == {1}
StoreDocs == {<<DocBlank>>, <<DocHi>>}
StoreOutcomes == {"ok", "error"}

NextStore ==
    \/ Tick
    \/ \E c \in StoreConns, o \in StoreOutcomes :
          Accept(c, DEFAULT_PROJECT_ID, NoClient, o)
    \/ \E c \in StoreConns, out \in SendResults : SendHello(c, out)
    \/ \E c \in StoreConns, out \in SendResults : SendSync(c, out)
    \/ \E t \in StoreConns, out \in SendResults : BroadcastStep(t, out)
    \/ \E c \in StoreWriters, out \in SendResults : Reply(c, out)
    \/ \E c \in StoreWriters, docs \in StoreDocs, ts \in ClientTs,
          o1 \in StoreOutcomes, o2 \in StoreOutcomes :
          RecvProjectUpdate(c, docs, ts, o1, o2)
    \/ SetProjectStateForProject(DEFAULT_PROJECT_ID, <<DocHi>>, FutureTs,
                                 FALSE, "ok", "ok")

SpecStore == Init /\ [][NextStore]_vars

\* The REST write paths of the default room, with one connection that joins
\* and listens.
RestConns == {1}
RestDocs == {<<>>, <<DocHi>>}

NextRest ==
    \/ Tick
    \/ \E c \in RestConns, o \in AllOutcomes :
          Accept(c, DEFAULT_PROJECT_ID, NoClient, o)
    \/ \E c \in RestConns, out \in SendResults : SendHello(c, out)
    \/ \E c \in RestConns, out \in SendResults : SendSync(c, out)
    \/ \E t \in RestConns \cup {RestTask}, out \in SendResults :
          BroadcastStep(t, out)
    \/ \E docs \in RestDocs, ts \in ClientTs,
          force \in BOOLEAN, o1 \in AllOutcomes, o2 \in AllOutcomes :
          SetProjectStateForProject(DEFAULT_PROJECT_ID, docs, ts, force, o1, o2)
    \/ \E docs \in RestDocs, ts \in ClientTs, o2 \in AllOutcomes :
          SetProjectState(docs, ts, o2)
    \/ \E docs \in RestDocs, o2 \in AllOutcomes : LoadProject(docs, o2)

SpecRest == Init /\ [][NextRest]_vars

\* The update log of the default room: connection 1 appends, connection 2
\* joins at any moment.
LogWriters == {1}
LogConns == {1, 2}

NextLog ==
    \/ \E c \in LogConns : Accept(c, DEFAULT_PROJECT_ID, NoClient, "ok")
    \/ \E c \in LogConns : SendHello(c, "sent")
    \/ \E c \in LogConns : SendSync(c, "sent")
    \/ \E t \in LogConns : BroadcastStep(t, "sent")
    \/ \E c \in LogWriters : RecvYjs(c, MaxYjs)

SpecLog == Init /\ [][NextLog]_vars

\* The message loop of the default room: connections that send texts
\* that are not JSON, pings, and project:update messages whose payload is
\* not an object.
LoopConns == 1..(MaxConns - 1)

NextLoop ==
    \/ \E c \in LoopConns : Accept(c, DEFAULT_PROJECT_ID, NoClient, "ok")
    \/ \E c \in LoopConns, out \in SendResults : SendHello(c, out)
    \/ \E c \in LoopConns, out \in SendResults : SendSync(c, out)
    \/ \E t \in LoopConns, out \in SendResults : BroadcastStep(t, out)
    \/ \E c \in LoopConns : RecvDisconnect(c)
    \/ \E c \in LoopConns : RecvPing(c, NoTs)
    \/ \E c \in LoopConns, out \in SendResults : Reply(c, out)
    \/ \E c \in LoopConns : RecvUndecodable(c)
    \/ \E c \in LoopConns : RecvNonObjectUpdate(c)

SpecLoop == Init /\ [][NextLoop]_vars

\* The four write paths of the default room: connection 1 writes over its
\* WebSocket and REST clients post; the store works, fails or is unavailable
\* for the whole of a request, and some payloads are larger than
\* MAX_PROJECT_BYTES.
WriteConns == {1}
WriteDocs == {<<DocHi>>, <<DocBlank>>, <<DocBig>>}

NextWrite ==
    \/ \E c \in WriteConns : Accept(c, DEFAULT_PROJECT_ID, NoClient, "ok")
    \/ \E c \in WriteConns, out \in SendResults : SendHello(c, out)
    \/ \E c \in WriteConns, out \in SendResults : SendSync(c, out)
    \/ \E t \in WriteConns \cup {RestTask}, out \in SendResults :
          BroadcastStep(t, out)
    \/ \E c \in WriteConns, out \in SendResults : Reply(c, out)
    \/ \E c \in WriteConns, docs \in WriteDocs, o \in AllOutcomes :
          RecvProjectUpdate(c, docs, NoTs, o, o)
    \/ \E docs \in WriteDocs, o \in AllOutcomes :
          SetProjectStateForProject(DEFAULT_PROJECT_ID, docs, NoTs, FALSE, o, o)
    \/ \E docs \in WriteDocs, o \in AllOutcomes : SetProjectState(docs, NoTs, o)
    \/ \E o \in AllOutcomes : LoadProject(<<DocHi>>, o)

SpecWrite == Init /\ [][NextWrite]_vars

\* Two writers of the default room: connections 1 and 2 both send
\* project:update messages, so that one arrives while the other's handler is
\* suspended in a send; the store works or fails for the whole of a message.
SerialConns == {1, 2}
SerialDocs == {<<DocHi>>, <<DocBlank>>}
SerialOutcomes == {"ok", "error"}

NextSerial ==
    \/ \E c \in SerialConns : Accept(c, DEFAULT_PROJECT_ID, NoClient, "ok")
    \/ \E c \in SerialConns : SendHello(c, "sent")
    \/ \E c \in SerialConns : SendSync(c, "sent")
    \/ \E t \in SerialConns : BroadcastStep(t, "sent")
    \/ \E c \in SerialConns : Reply(c, "sent")
    \/ \E c \in SerialConns, docs \in SerialDocs, o \in SerialOutcomes :
          RecvProjectUpdate(c, docs, NoTs, o, o)

SpecSerial == Init /\ [][NextSerial]_vars

\* The overwrite guard of POST /projects/{project_id}/state: requests
\* without "force" for the default project, whose payload is empty, small or
\* of NONEMPTY_PROJECT_MIN_BYTES and more; the read of the persisted record
\* and the write each work, fail or find no client.
GuardDocs == {<<>>, <<DocHi>>, <<DocLong>>}

NextGuard ==
    \/ Tick
    \/ \E docs \in GuardDocs, o1 \in AllOutcomes, o2 \in AllOutcomes :
          SetProjectStateForProject(DEFAULT_PROJECT_ID, docs, NoTs, FALSE, o1, o2)

SpecGuard == Init /\ [][NextGuard]_vars

\* Every relayed message type in one room: three connections of the default
\* room send cursor, selection and yjs messages, while
\* sends fail and connections leave.
EchoConns == {1, 2, 3}
EchoKinds == {"cursor:clear", "selection:update", "selection:clear"}

NextEcho ==
    \/ \E c \in EchoConns : Accept(c, DEFAULT_PROJECT_ID, NoClient, "ok")
    \/ \E c \in EchoConns : SendHello(c, "sent")
    \/ \E c \in EchoConns : SendSync(c, "sent")
    \/ \E t \in EchoConns, out \in SendResults : BroadcastStep(t, out)
    \/ \E c \in EchoConns : RecvDisconnect(c)
    \/ \E c \in EchoConns : RecvCursor(c)
    \/ \E c \in EchoConns, kind \in EchoKinds : RecvRelay(c, kind)
    \/ \E c \in EchoConns : RecvYjs(c, MaxEcho)

SpecEcho == Init /\ [][NextEcho]_vars

\* Two rooms side by side: connection 1 in the default room and connection
\* 2 in room "p1" join, rename, relay, append to the update log, write the
\* project and leave, and REST clients load backups into the default room.
RoomsConns == {1, 2}
RoomsDocs == {<<DocHi>>}

NextRooms ==
    \/ \E c \in RoomsConns : Accept(c, RoomOf(c), NoClient, "ok")
    \/ \E c \in RoomsConns : SendHello(c, "sent")
    \/ \E c \in RoomsConns : SendSync(c, "sent")
    \/ \E t \in RoomsConns \cup {RestTask}, out \in {"sent", "disconnect"} :
          BroadcastStep(t, out)
    \/ \E c \in RoomsConns : RecvDisconnect(c)
    \/ \E c \in RoomsConns : RecvRename(c)
    \/ \E c \in RoomsConns : RecvCursor(c)
    \/ \E c \in RoomsConns : RecvYjs(c, MaxEcho)
    \/ \E c \in RoomsConns, docs \in RoomsDocs :
          RecvProjectUpdate(c, docs, NoTs, "ok", "ok")
    \/ \E docs \in RoomsDocs : LoadProject(docs, "ok")

SpecRooms == Init /\ [][NextRooms]_vars

\* Hydration that yields nothing: connection 1 joins the default
\* room while the store fails or has no client, connection 2 joins room "p1",
\* which has no record; REST clients overwrite the default project with
\* "force", and the write may fail after the snapshot was replaced.
HydrateDocs == {<<DocHi>>, <<DocHtml>>}
HydrateFailures == {"error", "no_client"}
HydrateConns == {1, 2}

NextHydrate ==
    \/ Tick
    \/ \E o \in HydrateFailures : Accept(1, DEFAULT_PROJECT_ID, NoClient, o)
    \/ Accept(2, "p1", NoClient, "ok")
    \/ \E c \in HydrateConns : SendHello(c, "sent")
    \/ \E c \in HydrateConns : SendSync(c, "sent")
    \/ \E t \in HydrateConns : BroadcastStep(t, "sent")
    \/ \E c \in HydrateConns : RecvDisconnect(c)
    \/ \E docs \in HydrateDocs, o2 \in {"ok", "error"} :
          SetProjectStateForProject(DEFAULT_PROJECT_ID, docs, NoTs, TRUE, "ok", o2)

SpecHydrate == Init /\ [][NextHydrate]_vars

\* ------------------------------------------------------- admin endpoints
\* The documents of batch are deleted from the store.
delete_docs(fs, batch) == [r \in Rooms |-> IF r \in batch THEN NoRaw ELSE fs[r]]

\* if batch_count >= 450 (line 1099).
PurgeBatch == 450

\* The collection as client.collection(...).stream() yields it (line 1094):
\* `others` documents of projects that are not rooms of the model, then the
\* records of the rooms.
OtherDoc == "other"
purge_snapshots(fs, others) ==
    [i \in 1..others |-> OtherDoc]
        \o SelectSeq(<<DEFAULT_PROJECT_ID, "p1">>, LAMBDA r : fs[r] # NoRaw)

\* The loop of purge_projects (lines 1095-1104): the k-th batch holds the
\* documents (k-1)*PurgeBatch+1 .. k*PurgeBatch of the stream, the last one
\* what remains; commits[k] is the outcome of the k-th batch.commit(). The
\* first commit that raises ends the loop: the batches before it are
\* deleted, that one and the later ones are not.
purge_loop(snapshots, fs, commits) ==
    LET batches == (Len(snapshots) + PurgeBatch - 1) \div PurgeBatch
        raised == {k \in 1..batches : commits[k] # "ok"}
        first_raised == IF raised = {} THEN batches + 1
                        ELSE CHOOSE k \in raised : \A j \in raised : k <= j
        full == (first_raised - 1) * PurgeBatch
        committed == 1..(IF full <= Len(snapshots) THEN full ELSE Len(snapshots))
    IN  [fs |-> delete_docs(fs, {snapshots[i] : i \in committed}),
         ok |-> raised = {}]

\* Lines 1087-1088, 1106-1109 and 1260-1261, 1266-1268: {"status": "error"}.
admin_response(ok) ==
    [code |-> 200, status |-> IF ok THEN "ok" ELSE "error", reason |-> ""]

\* POST /projects/purge by an admin (lines 1082-1109): o is the outcome of
\* getting the client and streaming the collection.
PurgeProjects(others, o, commits) ==
    /\ o \in Outcomes
    /\ LET done == IF o = "ok"
                   THEN purge_loop(purge_snapshots(firestore, others),
                                   firestore, commits)
                   ELSE [fs |-> firestore, ok |-> FALSE]
       IN  /\ firestore' = done.fs
           /\ last_saved_project_hash' =
                  IF done.ok THEN [r \in Rooms |-> NoHash]
                  ELSE last_saved_project_hash
           /\ response' = admin_response(done.ok)
    /\ fs_ready' = ReadyAfter({o})
    /\ UNCHANGED <<mvars, sock, h, now, in_memory_project_raws, yvars, gvars, missed>>

\* DELETE /projects/{project_id} by an admin (lines 1255-1268).
DeleteProject(project_id, o) ==
    /\ o \in Outcomes
    /\ firestore' = IF o = "ok" THEN [firestore EXCEPT ![project_id] = NoRaw]
                    ELSE firestore
    /\ last_saved_project_hash' =
           IF o = "ok" THEN [last_saved_project_hash EXCEPT ![project_id] = NoHash]
           ELSE last_saved_project_hash
    /\ response' = admin_response(o = "ok")
    /\ fs_ready' = ReadyAfter({o})
    /\ UNCHANGED <<mvars, sock, h, now, in_memory_project_raws, yvars, gvars, missed>>

\* Hydrate, save, delete and purge: connection 1 joins either room, REST
\* clients overwrite the projects, admins delete and purge; the collection
\* holds no other project or PurgeBatch - 1 of them.
PurgeDocs == {<<DocHi>>, <<DocHtml>>}
PurgeOthers == {0, PurgeBatch - 1}
PurgeCommits == {<<"ok", "ok">>, <<"ok", "error">>, <<"error", "ok">>}

NextPurge ==
    \/ \E room \in Rooms, o \in AllOutcomes : Accept(1, room, NoClient, o)
    \/ SendHello(1, "sent")
    \/ SendSync(1, "sent")
    \/ BroadcastStep(1, "sent")
    \/ RecvDisconnect(1)
    \/ \E room \in Rooms, docs \in PurgeDocs, o2 \in AllOutcomes :
          SetProjectStateForProject(room, docs, NoTs, TRUE, "ok", o2)
    \/ \E room \in Rooms, o \in AllOutcomes : DeleteProject(room, o)
    \/ \E others \in PurgeOthers, o \in AllOutcomes, commits \in PurgeCommits :
          PurgeProjects(others, o, commits)

SpecPurge == Init /\ [][NextPurge]_vars

\* Messages read from a deregistered connection: connections 1 and 2 join
\* with the same client_id, so that 2 replaces 1, connection 3 joins without
\* one; sends fail; every connection, deregistered or not, goes on sending
\* renames, cursors, selections, yjs updates and project updates.
StaleKinds == {"cursor:clear", "selection:update", "selection:clear"}
StaleClient(c) == IF c = 3 THEN NoClient ELSE "k1"

StaleConns == {1, 2, 3}

NextStale ==
    \/ \E c \in StaleConns : Accept(c, DEFAULT_PROJECT_ID, StaleClient(c), "ok")
    \/ \E c \in StaleConns : Register(c, "ok")
    \/ \E c \in StaleConns : SendHello(c, "sent")
    \/ \E c \in StaleConns : SendSync(c, "sent")
    \/ \E t \in StaleConns, out \in {"sent", "error"} : BroadcastStep(t, out)
    \/ \E c \in StaleConns : RecvDisconnect(c)
    \/ \E c \in StaleConns : RecvRename(c)
    \/ \E c \in StaleConns : RecvCursor(c)
    \/ \E c \in StaleConns, kind \in StaleKinds : RecvRelay(c, kind)
    \/ \E c \in StaleConns : RecvYjs(c, MaxEcho)
    \/ \E c \in StaleConns : RecvProjectUpdate(c, <<DocHi>>, NoTs, "ok", "ok")

SpecStale == Init /\ [][NextStale]_vars

\* Messages that store nothing: two connections of the default room ping and
\* relay cursors and selections while the room holds a snapshot, a record
\* and an update log; any send may fail.
PingConns == {1, 2}
PassiveKinds == {"cursor:clear", "selection:update", "selection:clear"}

NextPing ==
    \/ \E c \in PingConns : Accept(c, DEFAULT_PROJECT_ID, NoClient, "ok")
    \/ \E c \in PingConns : SendHello(c, "sent")
    \/ \E c \in PingConns : SendSync(c, "sent")
    \/ \E t \in PingConns, out \in SendResults : BroadcastStep(t, out)
    \/ \E c \in PingConns : RecvDisconnect(c)
    \/ \E c \in PingConns, ts \in ClientTs : RecvPing(c, ts)
    \/ \E c \in PingConns, out \in SendResults : Reply(c, out)
    \/ \E c \in PingConns : RecvCursor(c)
    \/ \E c \in PingConns, kind \in PassiveKinds : RecvRelay(c, kind)
    \/ \E c \in PingConns : RecvYjs(c, MaxEcho)
    \/ \E c \in PingConns : RecvProjectUpdate(c, <<DocHi>>, NoTs, "ok", "ok")

SpecPing == Init /\ [][NextPing]_vars

\* ---------------------------------------------------------- user names
\* ConnectionManager._generate_user_name (lines 199-246), one loop iteration
\* per step. The diacritics of the source's words are left out.
first_parts ==
    <<"Busiga", "Snalla", "Tokiga", "Glada", "Luriga", "Pigga", "Coola",
      "Snabba", "Mjuka", "Kloka", "Skona", "Modiga">>
second_parts ==
    <<"Raven", "Ugglan", "Igelkotten", "Bavern", "Lamasen", "Kangurun",
      "Pandan", "Humlan", "Salen", "Algen", "Vesslan", "Grodan">>

max_attempts == Max(20, Len(first_parts) * Len(second_parts))

\* A generator that believes no name is taken.
no_existing_names(m, uo) == {}

\* The names of the users of every room (lines 229-236).
existing_names(m, uo) ==
    {uo[u].name : u \in UNION {m.users[r] : r \in Rooms}} \ {NoName}

\* suffix = 2 (line 242).
first_suffix == 2

Minting == \E t \in Conns : h[t].pc \in {"mint", "fallback"}

\* The name is returned: the identity is minted with it and registered
\* (lines 299-319).
ReturnName(c, name) ==
    /\ h' = [h EXCEPT ![c].pc = "minted", ![c].name = name,
                      ![c].attempt = 0, ![c].suffix = 0]
    /\ mgr' = register(mgr, h[c].room, c, NoClient, next_uid + 1)
    /\ user_objs' = [user_objs EXCEPT ![next_uid + 1].name = name]
    /\ next_uid' = next_uid + 1

\* connect() of connection c reaches line 302 and calls _generate_user_name.
NameStart(c, room) ==
    /\ h[c].pc = "new"
    /\ c = 1 \/ h[c - 1].pc # "new"
    /\ ~Minting
    /\ h' = [h EXCEPT ![c].pc = "mint", ![c].room = room]
    /\ sock' = [sock EXCEPT ![c] = "open"]
    /\ UNCHANGED <<mvars, now, svars, yvars, gvars, missed, response>>

\* One iteration of the for loop (lines 238-241) with random.choice
\* returning first_parts[i] and second_parts[j].
NameDraw(c, i, j) ==
    /\ h[c].pc = "mint"
    /\ h[c].attempt < max_attempts
    /\ LET base == <<first_parts[i], second_parts[j], 0>>
       IN  IF base \notin existing_names(mgr, user_objs)
           THEN ReturnName(c, base)
           ELSE /\ h' = [h EXCEPT ![c].attempt = @ + 1]
                /\ UNCHANGED mvars
    /\ UNCHANGED <<sock, now, svars, yvars, gvars, missed, response>>

\* The for loop ends without a return (lines 242-243).
NameExhausted(c) ==
    /\ h[c].pc = "mint"
    /\ h[c].attempt = max_attempts
    /\ h' = [h EXCEPT ![c].pc = "fallback", ![c].suffix = first_suffix]
    /\ UNCHANGED <<mvars, sock, now, svars, yvars, gvars, missed, response>>

\* One test of the while loop (lines 244-246).
NameSuffix(c) ==
    /\ h[c].pc = "fallback"
    /\ LET name == <<first_parts[1], second_parts[1], h[c].suffix>>
       IN  IF name \in existing_names(mgr, user_objs)
           THEN /\ h' = [h EXCEPT ![c].suffix = @ + 1]
                /\ UNCHANGED mvars
           ELSE ReturnName(c, name)
    /\ UNCHANGED <<sock, now, svars, yvars, gvars, missed, response>>

\* Identities are minted one after another; random.choice is drawn from the
\* first MaxPart adjectives and nouns.
InitNames ==
    /\ mgr = ManagerInit
    /\ user_objs = [u \in Uids |-> [client_id |-> NoClient, name |-> NoName]]
    /\ next_uid = 0
    /\ sock = [c \in Conns |-> "new"]
    /\ h = [t \in Tasks |-> NewTask(t)]
    /\ now = 1
    /\ in_memory_project_raws = [r \in Rooms |-> NoRaw]
    /\ firestore = [r \in Rooms |-> NoRaw]
    /\ fs_ready = FALSE
    /\ last_saved_project_hash = [r \in Rooms |-> NoHash]
    /\ yjs_update_logs = [r \in Rooms |-> <<>>]
    /\ yjs_n = [r \in Rooms |-> 0]
    /\ ws_last = [r \in Rooms |-> 0]
    /\ write_last = [r \in Rooms |-> 0]
    /\ last_save = [r \in Rooms |-> [none |-> TRUE]]
    /\ missed = {}
    /\ response = NoResponse

NameConns == {1, 2, 3}

NextNames ==
    \/ \E c \in NameConns : NameStart(c, RoomOf(c))
    \/ \E c \in NameConns, i \in 1..MaxPart, j \in 1..MaxPart : NameDraw(c, i, j)
    \/ \E c \in NameConns : NameExhausted(c)
    \/ \E c \in NameConns : NameSuffix(c)

SpecNames == InitNames /\ [][NextNames]_vars /\ WF_vars(NextNames)

\* ================================================================ claims
NoSave == [none |-> TRUE]

\* A step in which the handler of connection c accepts a project:update
\* (it got past the limit check and the wipe guard, line 920).
AcceptsUpdate(c) ==
    /\ h[c].pc = "loop"
    /\ h'[c].pc \in {"bcast", "reply"}
    /\ h'[c].msg.type = "project:update"
    /\ h'[c].reason \in {"", "firestore_error"}

\* The estimated document content of a persisted record, 0 when there is
\* none.
persisted_chars(record) ==
    IF record = NoRaw THEN 0 ELSE estimate_document_content_chars(record)

\* C1: the updated_at the server stamps on an accepted WebSocket
\* project:update of a room is strictly greater than the one it stamped on
\* the previous accepted project:update of that room, whatever happened in
\* between (joins, which re-hydrate and re-stamp the snapshot, included).
C1_StampsStrictlyIncrease ==
    [][\A c \in Conns :
          AcceptsUpdate(c) =>
              in_memory_project_raws'[h[c].room].updated_at > ws_last[h[c].room]]_vars

\* C2: the updated_at of a room's in-memory snapshot after an accepted write
\* (WebSocket project:update, POST /projects/{id}/state, POST /project/state)
\* is never below the one after the previous accepted write.
C2_VersionNeverDecreases ==
    [][\A r \in Rooms : write_last'[r] >= write_last[r]]_vars

\* C3: in every reachable state no two connections of a room's broadcast
\* list are bound to the same user identity (get_users(room), the values of
\* a dict keyed by identity, holds no identity twice by construction).
C3_OneConnectionPerIdentity ==
    \A r \in Rooms :
        LET conns == mgr.active_connections[r]
        IN  \A i, j \in 1..Len(conns) :
                (i # j /\ mgr.connection_users[conns[i]] # NoUser)
                    => mgr.connection_users[conns[i]] # mgr.connection_users[conns[j]]

\* C4: a WebSocket project:update with zero document content that arrives
\* while the persisted record has non-zero document content is answered
\* with project:save:error / content_wipe to the sender only, and leaves the
\* persisted record, the in-memory snapshot and the hash cache as they were;
\* nothing is broadcast.
C4_WipeRejected ==
    [][\A c \in Conns :
          ( /\ h[c].pc = "loop"
            /\ h'[c].msg.type = "project:update"
            /\ persisted_chars(firestore[h[c].room]) > 0
            /\ estimate_document_content_chars(h'[c].msg.raw) = 0 )
          => ( /\ h'[c].pc = "reply"
               /\ h'[c].reason = "content_wipe"
               /\ h'[c].after = "loop"
               /\ firestore' = firestore
               /\ in_memory_project_raws' = in_memory_project_raws
               /\ last_saved_project_hash' = last_saved_project_hash )]_vars

\* C5: no operation that persists a snapshot takes the persisted record of
\* a room from non-zero document content to zero document content.
C5_NoPersistedWipe ==
    [][\A r \in Rooms :
          ~( /\ persisted_chars(firestore[r]) > 0
             /\ persisted_chars(firestore'[r]) = 0 )]_vars

\* A step that calls save_project_to_firestore for room r, the call before
\* it having had a payload with the same hash.
RepeatedSave(r) ==
    /\ last_save'[r] # last_save[r]
    /\ last_save[r] # NoSave
    /\ last_save'[r].hash = last_save[r].hash

\* C6 (as stated): of two consecutive save_project_to_firestore calls for a
\* room with payloads equal apart from updated_at, the first writes and the
\* second performs no write and returns success: exactly one write.
C6_ExactlyOneWrite ==
    [][\A r \in Rooms :
          RepeatedSave(r) =>
              /\ last_save[r].wrote
              /\ last_save'[r].ok /\ ~last_save'[r].wrote]_vars

\* C6 (amended): of two consecutive save_project_to_firestore calls for a
\* room with payloads equal apart from updated_at, if the first returned
\* success the second performs no write and returns success.
C6_SecondCallSkipped ==
    [][\A r \in Rooms :
          (RepeatedSave(r) /\ last_save[r].ok) =>
              (last_save'[r].ok /\ ~last_save'[r].wrote)]_vars

\* At least two calls were made for a room and the last one was skipped as
\* a duplicate of what is persisted.
C6_Witness ==
    \E r \in Rooms :
        /\ last_save[r] # NoSave
        /\ ~last_save[r].odd
        /\ last_save[r].ok /\ ~last_save[r].wrote
        /\ firestore[r] # NoRaw
        /\ compute_project_hash(firestore[r]) = last_save[r].hash

\* The relay of a cursor:update is in progress in task t.
RelaysCursor(t) == h[t].pc = "bcast" /\ h[t].kind = "cursor:update"

\* C7: a cursor:update from connection A in room X is sent to every other
\* connection registered in room X (the loop starts with exactly those and
\* ends only when each was attempted) and to no connection of another room.
C7_CursorRelay ==
    /\ [](/\ missed = {}
          /\ \A t \in Conns :
                RelaysCursor(t) =>
                    /\ h[t].att \subseteq h[t].snap
                    /\ t \notin h[t].snap
                    /\ \A x \in h[t].snap : h[x].room = h[t].room)
    /\ [][\A t \in Conns :
             (h[t].pc = "loop" /\ RelaysCursor(t)') =>
                 h'[t].snap = {x \in Conns \ {t} :
                                  mgr.connection_projects[x] = h[t].room}]_vars

\* A relay from the default room is under way to the other connection of
\* that room while a connection is registered in room "p1".
C7_Witness ==
    \E t \in Conns :
        /\ RelaysCursor(t)
        /\ h[t].room = DEFAULT_PROJECT_ID
        /\ h[t].snap # {}
        /\ \E y \in Conns : mgr.connection_projects[y] = "p1"

\* A step in which a send of the broadcast loop of task t fails.
SendFails(t) ==
    /\ h[t].pc = "bcast"
    /\ h'[t] # h[t]
    /\ sock'[Head(h[t].todo)] = "closed"

\* C8: a send failure inside broadcast / broadcast_except does not end the
\* loop (every connection the loop started with is attempted before it
\* ends), and the failing connection leaves the room's connection list, the
\* connection-to-user map and the connection-to-room map, its identity
\* leaving the member list.
C8_FailedSendIsolated ==
    /\ [](missed = {})
    /\ [][\A t \in Conns :
             SendFails(t) =>
                 LET r == Head(h[t].todo)
                     user_id == mgr.connection_users[r]
                 IN  /\ \A room \in Rooms :
                           r \notin Range(mgr'.active_connections[room])
                     /\ mgr'.connection_users[r] = NoUser
                     /\ mgr'.connection_projects[r] = NoRoom
                     /\ user_id # NoUser =>
                           user_id \notin get_users(mgr', h[t].room)
                     /\ h[t].snap \ (h[t].att \cup {r}) # {} =>
                           h'[t].pc = "bcast" /\ h'[t].kind = h[t].kind]_vars

\* A broadcast loop goes on after a send of it failed and the recipient was
\* deregistered.
C8_Witness ==
    \E t \in Conns :
        /\ h[t].pc = "bcast"
        /\ h[t].todo # <<>>
        /\ \E x \in h[t].att :
              /\ sock[x] = "closed"
              /\ mgr.connection_projects[x] = NoRoom

\* The n most recent of the blobs 1..n, at most yjs_update_limit of them,
\* oldest first.
LastBlobs(n) ==
    LET k == IF n < yjs_update_limit THEN n ELSE yjs_update_limit
    IN  [i \in 1..k |-> n - k + i]

\* C9: after n accepted yjs:update appends a room's log holds exactly the
\* most recent min(n, 200) blobs, oldest first, and that is the list the
\* yjs:sync of a connection that joins then carries.
C9_BoundedLog ==
    /\ [](\A r \in Rooms : yjs_update_logs[r] = LastBlobs(yjs_n[r]))
    /\ [][\A c \in Conns :
             (h[c].pc = "hello" /\ h'[c].pc = "sync") =>
                 h'[c].msg.updates = LastBlobs(yjs_n[h[c].room])]_vars

\* A joiner is being sent a full log whose oldest blobs were dropped.
C9_Witness ==
    \E c \in Conns :
        /\ h[c].pc = "sync"
        /\ yjs_n[h[c].room] > yjs_update_limit
        /\ Len(h[c].msg.updates) = yjs_update_limit
        /\ h[c].msg.updates[1] > 1

\* C10: the hello of a connection that joins a room in which a
\* project:update was accepted carries the documents of the snapshot
\* resident in memory: the join does not replace that snapshot with the
\* persisted record.
C10_JoinKeepsResidentSnapshot ==
    [][\A c \in Conns :
          ( /\ h[c].pc \in {"new", "closing"}
            /\ h'[c].pc = "hello"
            /\ ws_last[h'[c].room] > 0
            /\ in_memory_project_raws[h'[c].room] # NoRaw )
          => h'[c].msg.raw.documents =
                 in_memory_project_raws[h'[c].room].documents]_vars

\* The reasons of the project:save:error a rejected project:update is
\* answered with.
RejectionReasons ==
    {"project_too_large", "project_total_limit_reached", "content_wipe",
     "empty_overwrite"}

\* The handler of connection c awaits the send of a project:save:error.
SendsSaveError(c) ==
    /\ h[c].pc = "reply"
    /\ h[c].msg.type = "project:update"
    /\ h[c].reason # ""

\* A step in which that send ends.
SaveErrorSendEnds(c) == SendsSaveError(c) /\ h'[c] # h[c]

\* C11 (as stated): when a WebSocket project:update ends in a typed error
\* (a size limit, content_wipe, empty_overwrite or a backing-store error),
\* the error goes to the sender only and no project:update is broadcast to
\* the room for that message.
C11_NoBroadcastAfterError ==
    [][\A c \in Conns :
          SaveErrorSendEnds(c) =>
              /\ \A t \in Tasks \ {c} : h'[t] = h[t]
              /\ ~(h'[c].pc = "bcast" /\ h'[c].kind = "project:update")]_vars

\* C11 (amended): when a WebSocket project:update is rejected by the size
\* limits or the wipe guard, the error goes to the sender only, nothing is
\* stored and no project:update is broadcast for that message; when the
\* backing-store write fails, the error goes to the sender only and, once
\* it is sent, the project:update is broadcast to the room all the same.
C11_NoBroadcastAfterRejection ==
    [][\A c \in Conns :
          /\ ( /\ h[c].pc = "loop"
               /\ SendsSaveError(c)'
               /\ h'[c].reason \in RejectionReasons )
             => ( /\ h'[c].after = "loop"
                  /\ in_memory_project_raws' = in_memory_project_raws
                  /\ firestore' = firestore
                  /\ last_saved_project_hash' = last_saved_project_hash )
          /\ SaveErrorSendEnds(c) =>
                /\ \A t \in Tasks \ {c} : h'[t] = h[t]
                /\ h[c].reason \in RejectionReasons =>
                      ~(h'[c].pc = "bcast" /\ h'[c].kind = "project:update")
                /\ (h[c].reason = "firestore_error" /\ sock'[c] = "open") =>
                      /\ h'[c].pc = "bcast" /\ h'[c].kind = "project:update"
                      /\ h'[c].snap = Range(mgr.active_connections[h[c].room])]_vars

\* A refused wipe is being reported to its sender after an earlier update
\* of the room was stored.
C11_Witness ==
    \E c \in Conns :
        /\ SendsSaveError(c)
        /\ h[c].reason = "content_wipe"
        /\ persisted_chars(firestore[h[c].room]) > 0

\* A step in which the handler of connection c starts the broadcast of a
\* project:update.
StartsUpdateBroadcast(c) ==
    /\ h[c].pc \in {"loop", "reply"}
    /\ h'[c].pc = "bcast"
    /\ h'[c].kind = "project:update"

\* C12: when a WebSocket project:update is accepted, a project:update that
\* carries the room's new in-memory snapshot (the accepted payload with the
\* server's updated_at, which is above 0) is sent to every connection
\* registered in the room, the sender included: the handler goes on to the
\* broadcast, and the broadcast starts with the room's connections and the
\* accepted snapshot in memory.
C12_AcceptedUpdateIsBroadcast ==
    [][\A c \in Conns :
          /\ AcceptsUpdate(c) =>
                (h'[c].pc = "reply" \/ StartsUpdateBroadcast(c))
          /\ (SaveErrorSendEnds(c) /\ h[c].reason = "firestore_error") =>
                StartsUpdateBroadcast(c)
          /\ StartsUpdateBroadcast(c) =>
                /\ h'[c].snap = Range(mgr.active_connections[h[c].room])
                /\ c \in h'[c].snap
                /\ in_memory_project_raws'[h[c].room] = h'[c].msg.raw
                /\ h'[c].msg.raw.updated_at > 0]_vars

\* A step that calls save_project_to_firestore for room r, the call
\* returning False.
SaveFails(r) ==
    /\ last_save'[r] # last_save[r]
    /\ ~last_save'[r].ok

\* C13: on every write path (WebSocket project:update, POST
\* /projects/{id}/state, POST /project/state, POST /project/load), when the
\* backing-store write fails or the store is unavailable the requester gets
\* an error (project:save:error over the WebSocket, HTTP 503 over REST) and
\* the in-memory snapshot has been replaced by the new payload all the same;
\* a save is reported as success only if it wrote the record or found the
\* payload's hash cached.
C13_SaveFailureReported ==
    [][\A r \in Rooms :
          /\ SaveFails(r) =>
                /\ in_memory_project_raws'[r] # NoRaw
                /\ compute_project_hash(in_memory_project_raws'[r]) = last_save'[r].hash
                /\ in_memory_project_raws'[r] # firestore'[r]
                /\ \/ \E c \in Conns :
                         /\ AcceptsUpdate(c)
                         /\ h[c].room = r
                         /\ SendsSaveError(c)'
                         /\ h'[c].reason = "firestore_error"
                         /\ h'[c].msg.raw = in_memory_project_raws'[r]
                   \/ /\ h' = h
                      /\ response'.code = 503
                      /\ response'.status = "error"
          /\ (last_save'[r] # last_save[r] /\ last_save'[r].ok) =>
                \/ last_save'[r].wrote /\ firestore'[r] = in_memory_project_raws'[r]
                \/ last_saved_project_hash[r] = last_save'[r].hash]_vars

\* A REST write has been answered 503 and a WebSocket writer is being sent
\* firestore_error, the snapshot in memory not being the persisted one.
C13_Witness ==
    /\ response.code = 503
    /\ \E c \in Conns :
          /\ SendsSaveError(c)
          /\ h[c].reason = "firestore_error"
          /\ in_memory_project_raws[h[c].room] = h[c].msg.raw
          /\ firestore[h[c].room] # h[c].msg.raw

SizeReasons == {"project_too_large", "project_total_limit_reached"}

\* The serialized dict is above the per-project or the global ceiling.
ExceedsCeiling(project_raw) ==
    /\ project_raw # NoRaw
    /\ \/ estimate_project_bytes(project_raw) > MAX_PROJECT_BYTES
       \/ estimate_project_bytes(project_raw) > MAX_PROJECT_TOTAL_BYTES

\* C14: a write whose serialized payload exceeds the per-project or the
\* global byte ceiling is rejected with a size-limit error before anything
\* is mutated, over the WebSocket and over REST: no payload above a ceiling
\* is ever resident or persisted, and the step that answers with the size
\* error leaves the in-memory snapshots, the persisted records and the hash
\* cache as they were.
C14_OversizeRejected ==
    /\ [](\A r \in Rooms :
             /\ ~ExceedsCeiling(in_memory_project_raws[r])
             /\ ~ExceedsCeiling(firestore[r]))
    /\ [][\A c \in Conns :
             ( /\ h[c].pc = "loop"
               /\ h'[c] # h[c]
               /\ h'[c].msg.type = "project:update"
               /\ ExceedsCeiling(h'[c].msg.raw) )
             => ( /\ SendsSaveError(c)'
                  /\ h'[c].reason \in SizeReasons
                  /\ h'[c].after = "loop"
                  /\ in_memory_project_raws' = in_memory_project_raws
                  /\ firestore' = firestore
                  /\ last_saved_project_hash' = last_saved_project_hash )]_vars
    /\ [][(response' # response /\ response'.reason \in SizeReasons)
             => ( /\ response'.status = "error"
                  /\ h' = h
                  /\ in_memory_project_raws' = in_memory_project_raws
                  /\ firestore' = firestore
                  /\ last_saved_project_hash' = last_saved_project_hash )]_vars

\* With a snapshot resident and persisted, an oversized REST post has been
\* answered with project_too_large and an oversized project:update is being
\* answered with it.
C14_Witness ==
    /\ response.reason = "project_too_large"
    /\ firestore[DEFAULT_PROJECT_ID] # NoRaw
    /\ \E c \in Conns :
          /\ SendsSaveError(c)
          /\ h[c].reason = "project_too_large"
          /\ ExceedsCeiling(h[c].msg.raw)
          /\ in_memory_project_raws[h[c].room] # NoRaw

\* C15: a WebSocket project:update whose project payload is not an object
\* (a list or a string) is rejected before anything is mutated and reported
\* to the sender only: the sender is sent an error, the room's state and
\* the registries are unchanged, and the sender's handler stays in its
\* message loop on an open socket.
C15_NonObjectPayloadRejected ==
    [][\A c \in Conns :
          ( /\ h[c].pc = "loop"
            /\ h'[c] # h[c]
            /\ h'[c].msg.type = "project:update"
            /\ h'[c].msg.raw = NotADict )
          => ( /\ h'[c].pc = "reply"
               /\ h'[c].reason # ""
               /\ h'[c].after = "loop"
               /\ sock'[c] = "open"
               /\ mgr' = mgr
               /\ in_memory_project_raws' = in_memory_project_raws
               /\ firestore' = firestore
               /\ last_saved_project_hash' = last_saved_project_hash )]_vars

\* The last text the handler of connection c received was not JSON.
HoldsUndecodable(c) == h[c].msg.type = "(undecodable)"

Registered(m, c) ==
    \/ \E r \in Rooms : c \in Range(m.active_connections[r])
    \/ m.connection_users[c] # NoUser
    \/ m.connection_projects[c] # NoRoom
    \/ \E r \in Rooms, u \in Uids : m.user_connections[r][u] = c

\* C17: if a step of connection setup fails before the message loop starts
\* (accept, registration, the hello send, the sync send, the presence
\* broadcast), the connection ends closed and is left in no registry: not
\* in a room's connection list, not in the connection maps, not bound to an
\* identity, its identity not in the member list.
C17_FailedSetupLeavesNoTrace ==
    [][\A c \in Conns :
          (h[c].pc \in {"new", "closing", "hello", "sync"} /\ h'[c].pc = "failed")
          => ( /\ sock'[c] = "closed"
               /\ ~Registered(mgr', c)
               /\ mgr.connection_users[c] # NoUser =>
                     mgr.connection_users[c] \notin get_users(mgr', h[c].room) )]_vars

\* C18: once the handler of a connection has terminated, for whatever
\* reason (graceful close, abrupt disconnect, an exception in the message
\* loop), the connection is in no registry: none that returned is, and the
\* step in which a handler leaves its message loop leaves it in none.
C18_TerminatedIsDeregistered ==
    /\ [](\A c \in Conns : h[c].pc = "done" => ~Registered(mgr, c))
    /\ [][\A c \in Conns :
             ( /\ h[c].pc \in {"loop", "reply", "bcast"}
               /\ h'[c].pc \in {"done", "failed"} )
             => ~Registered(mgr', c)]_vars

\* A step in which identity u leaves the member list of room r while
\* connections remain in the room.
IdentityLeaves(r, u) ==
    /\ u \in get_users(mgr, r)
    /\ u \notin get_users(mgr', r)
    /\ mgr'.active_connections[r] # <<>>

\* C19: whenever an identity leaves a room because its connection
\* disconnected (gracefully, abruptly, or dropped by a failed broadcast
\* send), the remaining connections are then sent a presence:update without
\* that identity, a cursor:clear and a selection:clear for it: the step in
\* which the identity leaves starts that series of broadcasts to the
\* connections that remain.
C19_DepartureAnnounced ==
    [][\A r \in Rooms, u \in Uids :
          IdentityLeaves(r, u) =>
              \E t \in Conns :
                  /\ h'[t] # h[t]
                  /\ h'[t].pc = "bcast"
                  /\ h'[t].room = r
                  /\ h'[t].kind = "presence:update"
                  /\ h'[t].rest = <<"cursor:clear", "selection:clear">>
                  /\ h'[t].snap = Range(mgr'.active_connections[r])]_vars

\* C20: on a successful join the handler sends the joiner a hello and then
\* a yjs:sync, and only after these broadcasts presence:update; the hello's
\* member list contains the joiner's own identity, and the yjs:sync carries
\* the update log whatever it holds, an empty log included.
C20_HelloSyncThenPresence ==
    [][\A c \in Conns :
          /\ (h[c].pc \in {"new", "closing"} /\ h'[c] # h[c]) =>
                \/ h'[c].pc = "closing"
                \/ /\ h'[c].pc = "hello"
                   /\ h'[c].msg.type = "hello"
                   /\ mgr'.connection_users[c] # NoUser
                   /\ mgr'.connection_users[c] \in h'[c].msg.users
                   /\ h'[c].msg.users = get_users(mgr', h'[c].room)
          /\ (h[c].pc = "hello" /\ h'[c] # h[c] /\ sock'[c] = "open") =>
                /\ h'[c].pc = "sync"
                /\ h'[c].msg.type = "yjs:sync"
                /\ h'[c].msg.updates = yjs_update_logs[h[c].room]
          /\ (h[c].pc = "sync" /\ h'[c] # h[c] /\ sock'[c] = "open"
                 /\ mgr.active_connections[h[c].room] # <<>>) =>
                /\ h'[c].pc = "bcast"
                /\ h'[c].kind = "presence:update"
                /\ h'[c].snap = Range(mgr.active_connections[h[c].room])]_vars

\* A joiner that found another connection in the room has been sent its
\* hello and is being sent a yjs:sync with an empty update list.
C20_Witness ==
    \E c \in Conns :
        /\ h[c].pc = "sync"
        /\ h[c].msg.type = "yjs:sync"
        /\ h[c].msg.updates = <<>>
        /\ Len(mgr.active_connections[h[c].room]) > 1

\* A step in which task t begins a broadcast loop: the send_json to the
\* first connection of its list is awaited.
StartsBroadcast(t) ==
    /\ h'[t].pc = "bcast"
    /\ h'[t].att = {}
    /\ h'[t] # h[t]

\* C21: broadcasts of one room reach every live recipient in the order they
\* were submitted in: a broadcast that begins while an earlier one of the
\* room is still in its loop does not send to a live connection that the
\* earlier one, which awaits a send to a live connection, has yet to reach.
C21_SubmissionOrderKept ==
    [][\A a \in Tasks, b \in Tasks :
          (/\ a # b
           /\ h[a].pc = "bcast"
           /\ h'[a] = h[a]
           /\ sock'[Head(h[a].todo)] = "open"
           /\ StartsBroadcast(b)
           /\ h'[b].room = h[a].room
           /\ sock'[Head(h'[b].todo)] = "open")
          => Head(h'[b].todo) \notin Range(Tail(h[a].todo))]_vars

\* The "type" of the messages a handler takes from receive_text.
InboundTypes ==
    {"ping", "presence:rename", "cursor:update", "cursor:clear",
     "selection:update", "selection:clear", "yjs:update", "project:update",
     "(undecodable)"}

\* C22: a handler works on one inbound message at a time: it takes a message
\* only at receive_text with no broadcast loop of its own under way, a relay
\* begins only from there, and when a broadcast loop hands back to
\* receive_text it has called send_json on every connection of its list.
C22_OneMessageAtATime ==
    /\ [][\A c \in Conns :
             (h'[c].msg # h[c].msg /\ h'[c].msg.type \in InboundTypes)
             => (h[c].pc = "loop" /\ h[c].todo = <<>>)]_vars
    /\ [][\A c \in Conns :
             (StartsBroadcast(c) /\ h'[c].msg.type \in ExceptKinds)
             => (h[c].pc = "loop" /\ h'[c].kind = h'[c].msg.type)]_vars
    /\ [][\A c \in Conns :
             (h[c].pc = "bcast" /\ h'[c].pc = "loop")
             => h[c].snap = h[c].att \cup {Head(h[c].todo)}]_vars

\* A handler is suspended in the relay of a cursor:update, with a recipient
\* still to attempt, while another handler of the model waits for a message.
C22_Witness ==
    \E c \in Conns :
        /\ h[c].pc = "bcast"
        /\ h[c].kind = "cursor:update"
        /\ h[c].msg.type = "cursor:update"
        /\ h[c].todo # <<>>
        /\ \E x \in Conns \ {c} : h[x].pc = "loop"

\* What an accepted project:update of connection c does to its room in one
\* step: the stamp is above the snapshot it replaces, the stamped payload is
\* the in-memory snapshot, and the persisted record is that payload when the
\* save wrote and is untouched when it did not.
UpdateAppliedWhole(c) ==
    LET room == h[c].room
        before == in_memory_project_raws[room]
        previous_ms == IF before = NoRaw THEN 0 ELSE IntOr0(before.updated_at)
        stamped == h'[c].msg.raw
    IN  /\ stamped.updated_at > previous_ms
        /\ stamped.updated_at >= now
        /\ in_memory_project_raws'[room] = stamped
        /\ last_save'[room] # last_save[room]
        /\ IF last_save'[room].wrote
           THEN firestore'[room] = stamped
           ELSE firestore' = firestore
        /\ \A t \in Tasks \ {c} : h'[t] = h[t]

\* C23: project:update messages of two connections of a room serialize: each
\* accepted one checks the guard, stamps, replaces the in-memory snapshot and
\* persists in one step of its handler, no other task moves in that step, a
\* refused one changes nothing, and the snapshot and the persisted record
\* change in no step of a handler that is past that point (suspended in a
\* send): they change only when an update is accepted or a connection joins.
C23_UpdatesSerialize ==
    /\ [][\A c \in Conns : AcceptsUpdate(c) => UpdateAppliedWhole(c)]_vars
    /\ [][\A c \in Conns :
             (/\ h[c].pc = "loop" /\ h'[c].pc = "reply"
              /\ h'[c].reason = "content_wipe")
             => /\ in_memory_project_raws' = in_memory_project_raws
                /\ firestore' = firestore]_vars
    /\ [][(firestore' # firestore
           \/ \E r \in Rooms :
                 /\ in_memory_project_raws[r] # NoRaw
                 /\ in_memory_project_raws'[r].documents
                        # in_memory_project_raws[r].documents)
          => \E c \in Conns :
                 \/ AcceptsUpdate(c)
                 \/ h[c].pc \in {"new", "closing"} /\ h'[c].pc = "hello"]_vars

\* Both handlers are suspended in the broadcast of an accepted update of
\* their own, and the in-memory snapshot is the one stamped last.
C23_Witness ==
    /\ h[1].pc = "bcast" /\ h[1].kind = "project:update"
    /\ h[2].pc = "bcast" /\ h[2].kind = "project:update"
    /\ h[1].msg.raw # NoRaw /\ h[2].msg.raw # NoRaw
    /\ h[1].msg.raw.updated_at # h[2].msg.raw.updated_at
    /\ in_memory_project_raws[DEFAULT_PROJECT_ID] \in {h[1].msg.raw, h[2].msg.raw}

\* The identity that the join of connection c found for its client_id when
\* connect() looked it up (lines 276-280), NoUser for none; the join ends in
\* this step.
MatchedIdentity(c) ==
    IF h[c].pc = "closing" THEN h[c].existing
    ELSE existing_user(mgr, h'[c].room, h'[c].client_id)

\* C24: a join whose client_id matches an identity still present in the room
\* is bound to that identity, and once connect() has returned the joiner is
\* the only connection of the room's broadcast list bound to it: the
\* connection that held the identity before has left the list and is closed.
C24_ReattachReplaces ==
    [][\A c \in Conns :
          (/\ h[c].pc \in {"new", "closing"}
           /\ h'[c].pc = "hello"
           /\ MatchedIdentity(c) # NoUser)
          => /\ mgr'.connection_users[c] = MatchedIdentity(c)
             /\ \A x \in Range(mgr'.active_connections[h'[c].room]) \ {c} :
                   mgr'.connection_users[x] # MatchedIdentity(c)
             /\ \A x \in Conns \ {c} :
                   mgr.user_connections[h'[c].room][MatchedIdentity(c)] = x
                   => sock'[x] = "closed"]_vars

\* A step in which manager.disconnect(c) is called: by the handler of c when
\* it leaves its message loop on WebSocketDisconnect (line 961), or by the
\* broadcast loop of some task whose send to c failed (lines 350, 362).
DisconnectCalled(c) ==
    \/ /\ h[c].pc \in {"loop", "reply"}
       /\ \/ h'[c].pc = "done"
          \/ h'[c].pc = "bcast" /\ h'[c].cont = "done"
    \/ \E t \in Tasks : SendFails(t) /\ Head(h[t].todo) = c

\* C25: disconnect(c) takes c out of every room's connection list and out of
\* the connection maps; the identity c was bound to leaves the member list,
\* and the client_id of that identity is no longer mapped to it.  A join
\* that then finds its client_id unmapped mints an identity whose id was
\* never used before and maps the client_id to it.
C25_DisconnectForgetsIdentity ==
    /\ [][\A c \in Conns :
             DisconnectCalled(c)
             => LET u == mgr.connection_users[c]
                    room == mgr.connection_projects[c]
                IN  /\ \A r \in Rooms : c \notin Range(mgr'.active_connections[r])
                    /\ mgr'.connection_users[c] = NoUser
                    /\ mgr'.connection_projects[c] = NoRoom
                    /\ u # NoUser
                       => /\ u \notin mgr'.users[room]
                          /\ \A k \in ClientIds :
                                user_objs[u].client_id = k
                                => mgr'.client_users[room][k] # u]_vars
    /\ [][\A c \in Conns :
             (/\ h[c].pc = "new"
              /\ h'[c].pc = "hello"
              /\ h'[c].client_id # NoClient
              /\ mgr.client_users[h'[c].room][h'[c].client_id] = NoUser)
             => /\ mgr'.connection_users[c] = next_uid + 1
                /\ next_uid' = next_uid + 1
                /\ \A r \in Rooms : next_uid + 1 \notin mgr.users[r]
                /\ \A x \in Conns : mgr.connection_users[x] # next_uid + 1
                /\ mgr'.client_users[h'[c].room][h'[c].client_id] = next_uid + 1]_vars

\* The first identity of client "k1" has left with its connection, and a
\* later join with "k1" holds a second, newly minted identity.
C25_Witness ==
    \E c \in Conns :
        /\ mgr.connection_users[c] = 2
        /\ mgr.client_users[DEFAULT_PROJECT_ID]["k1"] = 2
        /\ user_objs[1].client_id = "k1"
        /\ 1 \notin mgr.users[DEFAULT_PROJECT_ID]
        /\ c \in Range(mgr.active_connections[DEFAULT_PROJECT_ID])

\* The persisted record of the room is substantial.
Substantial(record) ==
    /\ record # NoRaw
    /\ estimate_project_bytes(record) >= NONEMPTY_PROJECT_MIN_BYTES

\* A payload the overwrite guard is meant to stop.
EmptyOrSmall(project_raw) ==
    \/ is_project_effectively_empty(project_raw)
    \/ estimate_project_bytes(project_raw) <= EMPTY_OVERWRITE_MAX_BYTES

\* C26: while the persisted record of a project is substantial, a POST
\* /projects/{project_id}/state without force (the only requests of
\* SpecGuard) whose payload is effectively empty or of at most
\* EMPTY_OVERWRITE_MAX_BYTES is refused: no step makes such a payload the
\* in-memory snapshot or the persisted record, and a step answered with
\* empty_overwrite changes neither.
C26_SmallOverwriteRefused ==
    /\ [][\A r \in Rooms :
             (/\ Substantial(firestore[r])
              /\ \/ in_memory_project_raws'[r] # in_memory_project_raws[r]
                 \/ firestore'[r] # firestore[r])
             => /\ ~EmptyOrSmall(in_memory_project_raws'[r])
                /\ ~EmptyOrSmall(firestore'[r])]_vars
    /\ [][(response' # response /\ response'.reason = "empty_overwrite")
          => /\ in_memory_project_raws' = in_memory_project_raws
             /\ firestore' = firestore]_vars

\* Task t is in the loop of the relay of a message its connection sent.
Relays(t) ==
    /\ h[t].pc = "bcast"
    /\ h[t].msg.type \in ExceptKinds
    /\ h[t].kind = h[t].msg.type

\* C27: the relay of a cursor:update, cursor:clear, selection:update,
\* selection:clear or yjs:update is never sent to the connection it came
\* from: the loop of broadcast_except starts with the connections registered
\* in the sender's room other than the sender, and sends to those only.
C27_NoEchoToSender ==
    /\ [](\A t \in Conns :
             Relays(t) => /\ t \notin h[t].snap
                          /\ t \notin Range(h[t].todo)
                          /\ h[t].att \cup Range(h[t].todo) \subseteq h[t].snap)
    /\ [][\A t \in Conns :
             (h[t].pc = "loop" /\ Relays(t)')
             => h'[t].snap = Range(mgr.active_connections[h[t].room]) \ {t}]_vars
    /\ [][\A t \in Conns :
             (/\ h[t].pc = "loop"
              /\ t \in Range(mgr.active_connections[h[t].room])
              /\ h'[t].msg.type \in ExceptKinds
              /\ h'[t] # h[t])
             => Relays(t)']_vars

\* A selection:clear and a yjs:update are being relayed at the same time in
\* a room of three connections, each to the two connections that did not
\* send it.
C27_Witness ==
    \E a \in Conns, b \in Conns :
        /\ Relays(a) /\ h[a].kind = "selection:clear"
        /\ Relays(b) /\ h[b].kind = "yjs:update"
        /\ h[a].snap = Conns \ {a}
        /\ h[b].snap = Conns \ {b}
        /\ h[a].att # {}

\* C28: every message that broadcast or broadcast_except sends carries the
\* project_id of the room whose connection list the loop runs over: the room
\* of the handler for its presence, relay, project:update and departure
\* messages, the default room for the project state that POST /project/load
\* broadcasts.
C28_BroadcastsCarryRoomId ==
    /\ [](\A t \in Tasks :
             h[t].pc = "bcast" => /\ h[t].tag = h[t].room
                                  /\ h[t].tag \in Rooms)
    /\ [][\A t \in Tasks :
             StartsBroadcast(t)
             => /\ h'[t].snap \subseteq Range(mgr'.active_connections[h'[t].tag])
                /\ t = RestTask => h'[t].tag = DEFAULT_PROJECT_ID]_vars

\* The handler of the connection of room "p1" and the REST task, which
\* writes to the default room, are both in a broadcast loop.
C28_Witness ==
    /\ h[2].pc = "bcast" /\ h[2].tag = "p1"
    /\ h[RestTask].pc = "bcast" /\ h[RestTask].tag = DEFAULT_PROJECT_ID
    /\ h[RestTask].kind = "project_state"

\* What the server holds for room r: its in-memory snapshot, its update
\* log, its member list, its connection list and its last-persisted hash.
RoomState(r) ==
    <<in_memory_project_raws[r], yjs_update_logs[r], mgr.users[r],
      mgr.active_connections[r], last_saved_project_hash[r]>>

\* C29: a step of the handler of a connection of room X (its join, a
\* rename, a relay, a yjs:update, a project:update, a send of one of its
\* broadcasts and the disconnect a failed send brings, its departure) leaves
\* the snapshot, the update log, the member list, the connection list and
\* the last-persisted hash of every other room as they are.
C29_OtherRoomsUntouched ==
    [][\A c \in Conns :
          h'[c] # h[c]
          => \A y \in Rooms \ {h'[c].room} : RoomState(y)' = RoomState(y)]_vars

\* Both rooms are in use: the default room holds a written snapshot and an
\* empty log, room "p1" a log entry and no snapshot, each with its own
\* connection registered.
C29_Witness ==
    /\ in_memory_project_raws[DEFAULT_PROJECT_ID] # NoRaw
    /\ in_memory_project_raws["p1"] = NoRaw
    /\ ws_last[DEFAULT_PROJECT_ID] > 0
    /\ yjs_update_logs["p1"] # <<>>
    /\ yjs_update_logs[DEFAULT_PROJECT_ID] = <<>>
    /\ mgr.active_connections[DEFAULT_PROJECT_ID] = <<1>>
    /\ mgr.active_connections["p1"] = <<2>>

\* C30: a call of disconnect(c) leaves every other connection in its room's
\* connection list and bound to its identity (the connection maps, the
\* member list and the identity's connection entry keep it), and leaves
\* every identity other than the one of c in the member list, whatever
\* joins with the client_id of c happened before.
C30_DisconnectSparesOthers ==
    [][\A c \in Conns :
          DisconnectCalled(c)
          => \A r \in Rooms :
                /\ \A x \in Range(mgr.active_connections[r]) \ {c} :
                      LET u == mgr.connection_users[x]
                      IN  /\ x \in Range(mgr'.active_connections[r])
                          /\ mgr'.connection_users[x] = u
                          /\ mgr'.connection_projects[x] = mgr.connection_projects[x]
                          /\ (u # NoUser /\ u \in mgr.users[r])
                             => /\ u \in mgr'.users[r]
                                /\ mgr'.user_connections[r][u]
                                       = mgr.user_connections[r][u]
                /\ \A u \in mgr.users[r] \ {mgr.connection_users[c]} :
                      u \in mgr'.users[r]]_vars

\* The join of connection c ends in this step: connect() has returned and
\* the handler awaits its hello send.
JoinEnds(c) == h[c].pc \in {"new", "closing"} /\ h'[c].pc = "hello"

\* C31: a join whose hydration finds no record, no client or a failing store
\* (every join of SpecHydrate) does not fail: the handler goes on to the
\* hello, which carries the room's in-memory snapshot as it was (re-stamped),
\* or an empty one when the room holds none; the snapshot keeps its
\* documents, the hash cache and the store are untouched, and the yjs:sync
\* follows the hello.
C31_EmptyHydrationJoins ==
    /\ [][\A c \in Conns :
             JoinEnds(c)
             => LET room == h'[c].room
                    before == in_memory_project_raws[room]
                IN  /\ h'[c].msg.type = "hello"
                    /\ h'[c].msg.raw = restamp(before, now)
                    /\ in_memory_project_raws'[room] =
                           IF before = NoRaw THEN NoRaw ELSE restamp(before, now)
                    /\ before = NoRaw => h'[c].msg.raw.documents = NoDocs
                    /\ last_saved_project_hash' = last_saved_project_hash
                    /\ firestore' = firestore]_vars
    /\ [](\A c \in Conns : h[c].pc # "failed")
    /\ [][\A c \in Conns :
             (h[c].pc = "hello" /\ h'[c] # h[c])
             => h'[c].pc = "sync" /\ h'[c].msg.type = "yjs:sync"]_vars

\* A join to the default room has completed with the in-memory snapshot
\* while the store holds a different record that the failed read did not
\* return.
C31_Witness ==
    \E c \in Conns :
        /\ h[c].pc = "loop"
        /\ h[c].room = DEFAULT_PROJECT_ID
        /\ firestore[DEFAULT_PROJECT_ID] # NoRaw
        /\ in_memory_project_raws[DEFAULT_PROJECT_ID] # NoRaw
        /\ in_memory_project_raws[DEFAULT_PROJECT_ID].documents
               # firestore[DEFAULT_PROJECT_ID].documents

\* The messages that store nothing, and the steps of handler c that belong to
\* the handling of one of them (its receipt, the pong, the relay's sends).
PassiveTypes ==
    {"ping", "cursor:update", "cursor:clear", "selection:update", "selection:clear"}

HandlesPassive(c) ==
    /\ h'[c] # h[c]
    /\ h[c].msg.type \in PassiveTypes \/ h'[c].msg.type \in PassiveTypes

\* The pong goes to the sender only and echoes the ts of the ping.
PongEchoes ==
    /\ [][\A c \in Conns :
             (h[c].pc = "loop" /\ h'[c].msg.type = "ping")
             => /\ h'[c].pc = "reply"
                /\ h'[c].pong = h'[c].msg.ts
                /\ h'[c].todo = <<>>]_vars
    /\ [][\A c \in Conns :
             (h[c].pc = "reply" /\ h[c].msg.type = "ping" /\ h'[c] # h[c]
                 /\ sock'[c] = "open")
             => h'[c].pc = "loop" /\ h'[c].todo = <<>>]_vars

StoresNothing(c) ==
    /\ in_memory_project_raws' = in_memory_project_raws
    /\ firestore' = firestore
    /\ last_saved_project_hash' = last_saved_project_hash
    /\ yjs_update_logs' = yjs_update_logs

\* C32 as stated: a ping is answered with a pong echoing the client's ts to
\* the sender only, and handling a ping, cursor:update, cursor:clear,
\* selection:update or selection:clear changes neither the snapshot, the
\* persisted record, the update log nor the member list of the room (as long
\* as the sender's own connection stays up).
C32_PassiveMessagesChangeNothing ==
    /\ PongEchoes
    /\ [][\A c \in Conns :
             (HandlesPassive(c) /\ sock'[c] = "open")
             => StoresNothing(c) /\ mgr'.users = mgr.users]_vars

\* C32, amended: as above, except that a recipient (or the pinging sender)
\* whose send fails is deregistered, which takes its identity out of the
\* member list; nothing else changes the registries.
C32_PassiveMessagesStoreNothing ==
    /\ PongEchoes
    /\ [][\A c \in Conns :
             HandlesPassive(c)
             => /\ StoresNothing(c)
                /\ \/ mgr' = mgr
                   \/ \E x \in Conns :
                         /\ sock'[x] = "closed"
                         /\ \/ h[c].pc = "reply" /\ x = c
                            \/ h[c].pc = "bcast" /\ x = Head(h[c].todo)
                         /\ mgr' = disconnect(mgr, user_objs, x)]_vars

\* A pong echoing a client ts has been sent while the room holds a snapshot,
\* a record, an update log and two members.
C32_Witness ==
    \E c \in Conns :
        /\ h[c].pc = "reply"
        /\ h[c].msg.type = "ping"
        /\ h[c].pong = FutureTs
        /\ in_memory_project_raws[DEFAULT_PROJECT_ID] # NoRaw
        /\ firestore[DEFAULT_PROJECT_ID] # NoRaw
        /\ yjs_update_logs[DEFAULT_PROJECT_ID] # <<>>
        /\ Cardinality(mgr.users[DEFAULT_PROJECT_ID]) = 2

\* The names of the identities live in any room.
LiveNames ==
    {user_objs[u].name : u \in UNION {mgr.users[r] : r \in Rooms}}

Returns(c) == h[c].pc \in {"mint", "fallback"} /\ h'[c].pc = "minted"

\* C33: generating the name of a fresh identity terminates, and the name it
\* returns differs from the name of every identity live at that time; the
\* numbered fallback is taken only after max_attempts draws that all hit a
\* name in use, and returns the first adjective and noun with the smallest
\* suffix from 2 upward that is not in use.
C33_FreshNameIsUnused ==
    /\ [][\A c \in Conns :
             Returns(c)
             => /\ h'[c].name # NoName
                /\ h'[c].name \notin LiveNames
                /\ h'[c].name \in LiveNames']_vars
    /\ [][\A c \in Conns :
             (h[c].pc = "mint" /\ h'[c].pc = "fallback")
             => h[c].attempt = max_attempts]_vars
    /\ [][\A c \in Conns :
             (h[c].pc = "fallback" /\ h'[c].pc = "minted")
             => /\ h'[c].name[1] = first_parts[1]
                /\ h'[c].name[2] = second_parts[1]
                /\ h'[c].name[3] >= 2
                /\ \A k \in 2..(h'[c].name[3] - 1) :
                      <<first_parts[1], second_parts[1], k>> \in LiveNames]_vars
    /\ \A c \in Conns : (h[c].pc \in {"mint", "fallback"}) ~> (h[c].pc = "minted")

\* The fallback has skipped suffix 2, which was in use, and returned 3.
C33_Witness ==
    \E c \in Conns :
        /\ h[c].pc = "minted"
        /\ h[c].name = <<first_parts[1], second_parts[1], 3>>
        /\ <<first_parts[1], second_parts[1], 2>> \in LiveNames

\* No handler is inside a join, a leave or a broadcast, and none has failed:
\* each one has not started, waits for its next message, or has left.
NothingSuspended == \A c \in Conns : h[c].pc \in {"new", "loop", "done"}

ListedIn(r) == Range(mgr.active_connections[r])

\* C34: whenever no join or leave is suspended, the registries of each room
\* agree: every listed connection is bound to an identity of the member list,
\* and every identity of the member list is bound to exactly one listed
\* connection.
C34_RegistriesAgree ==
    NothingSuspended
    => \A r \in Rooms :
          /\ \A c \in ListedIn(r) : mgr.connection_users[c] \in mgr.users[r]
          /\ \A u \in mgr.users[r] :
                Cardinality({c \in ListedIn(r) : mgr.connection_users[c] = u}) = 1

\* Handler c accepts a yjs:update blob into the log of its room in this step.
AcceptsBlob(c) ==
    /\ h[c].pc = "loop"
    /\ mgr.connection_users[c] # NoUser
    /\ \A x \in Conns \ {c} : h'[x] = h[x]
    /\ yjs_n'[h[c].room] = yjs_n[h[c].room] + 1

\* The yjs:sync of J is built in this step (its hello has been sent).
BuildsSync(J) == h[J].pc = "hello" /\ h'[J].pc = "sync"

\* C35: no blob is lost to a joiner J. A blob accepted from another
\* connection while J is registered (also while J's join is still sending)
\* is relayed live to J, and every listed connection of a relay is attempted;
\* J is registered when its yjs:sync is built and stays registered while its
\* socket is open; and the yjs:sync holds every blob accepted until then that
\* is within the yjs_update_limit window.
C35_NoBlobLostToJoiner ==
    /\ [][\A c \in Conns : \A J \in Conns \ {c} :
             (AcceptsBlob(c) /\ J \in ListedIn(h[c].room))
             => /\ h'[c].pc = "bcast"
                /\ h'[c].kind = "yjs:update"
                /\ h'[c].msg.update = yjs_n'[h[c].room]
                /\ J \in h'[c].snap]_vars
    /\ [](missed = {})
    /\ [][\A J \in Conns :
             BuildsSync(J)
             => /\ J \in ListedIn(h[J].room)
                /\ h'[J].msg.updates = LastBlobs(yjs_n[h[J].room])]_vars
    /\ [][\A J \in Conns : \A r \in Rooms :
             (J \in ListedIn(r) /\ sock'[J] = "open")
             => J \in Range(mgr'.active_connections[r])]_vars

\* A blob accepted after J's yjs:sync was built, and so not in it, is being
\* relayed live to J while J's yjs:sync is still being sent.
C35_Witness ==
    \E J \in Conns : \E c \in Conns \ {J} :
        /\ h[J].pc = "sync"
        /\ h[J].msg.updates # <<>>
        /\ h[c].pc = "bcast"
        /\ h[c].kind = "yjs:update"
        /\ J \in h[c].snap
        /\ \A i \in DOMAIN h[J].msg.updates : h[J].msg.updates[i] # h[c].msg.update

\* Task t relays a live yjs:update or project:update and its send to J is
\* awaited.
LiveSendTo(t, J) ==
    /\ h[t].pc = "bcast"
    /\ h[t].kind \in {"yjs:update", "project:update"}
    /\ h[t].todo # <<>>
    /\ Head(h[t].todo) = J

\* C36: no live yjs:update or project:update is sent to a connection before
\* its own hello and yjs:sync have been sent, and no blob is both relayed
\* live to a connection and part of its yjs:sync replay.
C36_NoLiveRelayBeforeSync ==
    /\ \A t \in Tasks : \A J \in Conns :
          LiveSendTo(t, J) => h[J].pc \notin {"hello", "sync"}
    /\ \A t \in Conns : \A J \in Conns :
          (h[t].pc = "bcast" /\ h[t].kind = "yjs:update" /\ J \in h[t].snap
              /\ h[J].pc = "sync")
          => \A i \in DOMAIN h[J].msg.updates :
                h[J].msg.updates[i] # h[t].msg.update

\* C37: whenever the last-persisted-hash cache holds an entry for a room, the
\* store holds a record for that room whose content hash (updated_at left
\* out) is that entry.
C37_CachedHashIsStored ==
    \A r \in Rooms :
        last_saved_project_hash[r] # NoHash
        => /\ firestore[r] # NoRaw
           /\ compute_project_hash(firestore[r]) = last_saved_project_hash[r]

\* Connection c is on no room's connection list.
Unlisted(c) == \A r \in Rooms : c \notin ListedIn(r)

\* C38: disconnect of a connection that is already deregistered (replaced by
\* a reattaching connection or dropped by a failed send) changes no registry
\* of any room, so the identity rebound to the replacing connection stays;
\* and a second disconnect of any connection changes nothing more.
C38_StaleDisconnectHarmless ==
    /\ [][\A c \in Conns :
             (DisconnectCalled(c) /\ Unlisted(c)) => mgr' = mgr]_vars
    /\ [](\A c \in Conns :
             disconnect(disconnect(mgr, user_objs, c), user_objs, c)
                 = disconnect(mgr, user_objs, c))

\* Connection 1 was replaced by a connection that took over identity 1, its
\* handler has since called disconnect, and identity 1 is still a member
\* bound to the replacing connection.
C38_Witness ==
    \E c \in Conns \ {1} :
        /\ \/ h[1].pc = "done"
           \/ h[1].pc = "bcast" /\ h[1].cont = "done"
        /\ 1 \in mgr.users[DEFAULT_PROJECT_ID]
        /\ mgr.connection_users[c] = 1
        /\ mgr.user_connections[DEFAULT_PROJECT_ID][1] = c
        /\ c \in ListedIn(DEFAULT_PROJECT_ID)

\* Some registered connection of room r waits for its next message.
RegisteredReceiver(r) ==
    \E c \in ListedIn(r) : h[c].pc = "loop" /\ mgr.connection_users[c] # NoUser

SnapshotWritten(r) ==
    /\ in_memory_project_raws'[r] # in_memory_project_raws[r]
    /\ ListedIn(r) # {}
    /\ ~ \E c \in Conns : JoinEnds(c)

\* C40: every accepted write that replaces a room's in-memory snapshot,
\* whichever path it arrives by, is followed by a project:update broadcast to
\* the connections registered in the room: the writing task starts the
\* broadcast in the same step, or first reports a failed save to its own
\* socket and broadcasts after that.
C40_WritesAreBroadcast ==
    [][\A r \in Rooms :
          SnapshotWritten(r)
          => \E t \in Tasks :
                /\ h'[t] # h[t]
                /\ \/ /\ h'[t].pc = "bcast"
                      /\ h'[t].kind = "project:update"
                      /\ h'[t].snap = ListedIn(r)
                   \/ h'[t].pc = "reply" /\ h'[t].after = "bcast"]_vars

====
